---- MODULE Spec2Model ----
(***************************************************************************)
(* Pantheon Pandemonium rules engine: GameEngine and the systems it drives *)
(* (MapGenerator, TurnSystem, CaptureSystem, ShadowSystem, FogOfWarSystem, *)
(* EventSystem, VictorySystem, AIController), as one state machine.        *)
(*                                                                         *)
(* Numbers with a fractional part in the source are kept exact: capture    *)
(* costs are carried in halves, AI utilities in 1/2000ths, probabilities   *)
(* are not computed (every spread roll is clamped into [0.02, 0.60], so    *)
(* each roll can come out either way).                                     *)
(***************************************************************************)
EXTENDS Integers, Sequences, FiniteSets, TLC

\* ------------------------------------------------------------------ bounds

\* options.mapSize of the main map: the four 3x3 starting regions are disjoint
MapWidth == 15
MapHeight == 7
\* side of the second, square map: starting regions of players 1 and 2 overlap
SmallMapSide == 10
\* executeAction calls per run
MaxCalls == 2
\* cap of state.turn
MaxTurn == 3
\* initializeGame calls per engine
MaxGames == 1
\* importState calls per engine
MaxImports == 1
\* successful spread rolls per pass
MaxSpreadHits == 1
\* exported texts the caller keeps
MaxSaved == 1
\* executeAction calls per run of the capture play
MaxCaptureCalls == 3
\* turns played past the first round in the rounds play
MaxExtraTurns == 2
\* largest amount granted in the ledger play
MaxGrant == 25
\* grants per run of the ledger play
MaxGrantCalls == 2
\* tiles of the states given to the victory evaluation
VictoryTiles == 5

\* ------------------------------------------------------- program constants

BaseDivinity == 6
CaptureBaseCost == 4
StabilityCap == 10
MaxDivinityPerTurn == 20
MaxFaithPerTurn == 10
MaxShadowEnergy == 10
\* shadowSpread.base = 0.10, in hundredths
ShadowSpreadBasePct == 10
\* victoryThresholds.conquest = 0.75, in hundredths
ConquestThresholdPct == 75
SanctifySitesThreshold == 6
ShadowAccordThreshold == 100
RelicCountThreshold == 3

\* ------------------------------------------------------------------- types

Neutral == "neutral"
Shadow == "shadow"
PlayerOwners == <<"player", "ai1", "ai2", "ai3">>

Hidden == "hidden"
Seen == "seen"
Visible == "visible"

NoDomain == "none"

Max(a, b) == IF a >= b THEN a ELSE b
Min(a, b) == IF a <= b THEN a ELSE b
Abs(a) == IF a >= 0 THEN a ELSE 0 - a

Range(s) == {s[i] : i \in DOMAIN s}

\* TileKey `${x},${y}`: the coordinate pair
Key(x, y) == <<x, y>>

Manhattan(a, b) == Abs(a[1] - b[1]) + Abs(a[2] - b[2])

\* the keys of a generated w x h map
MapKeys(w, h) == (0 .. w - 1) \X (0 .. h - 1)

\* getNeighbors: the orthogonal neighbours inside the map (N, E, S, W)
getNeighbors(pos, size) ==
    LET cand == << <<pos[1], pos[2] - 1>>, <<pos[1] + 1, pos[2]>>,
                   <<pos[1], pos[2] + 1>>, <<pos[1] - 1, pos[2]>> >>
        inMap(p) == p[1] >= 0 /\ p[1] < size.width /\ p[2] >= 0 /\ p[2] < size.height
    IN SelectSeq(cand, inMap)

\* getTilesInRadius: keys within Manhattan distance radius, inside the map
getTilesInRadius(pos, radius, size) ==
    {k \in MapKeys(size.width, size.height) : Manhattan(k, pos) <= radius}

\* ---------------------------------------------------------- MapGenerator

\* generateTile: the tile of one cell, given the terrain kind the noise
\* thresholds select for it (the noise fields themselves are an input)
generateTile(kind) ==
    [ type |-> kind,
      owner |-> Neutral,
      stability |-> IF kind = "mountain" THEN 10
                    ELSE IF kind \in {"forest", "hills"} THEN 2 ELSE 1,
      corruption |-> 0,
      sanctified |-> FALSE,
      domainAttunement |-> NoDomain,
      visibility |-> Hidden,
      hasShrine |-> FALSE,
      eventTriggered |-> FALSE,
      divinityYield |-> 0,
      faithYield |-> 0,
      moveCost |-> IF kind = "swamp" THEN 3
                   ELSE IF kind \in {"water", "coast", "forest", "hills", "desert"} THEN 2
                   ELSE 1,
      impassable |-> kind = "mountain" ]

\* placeFeatures: the modifyTile callbacks of the three feature types
placeFeature(tile, featureType) ==
    IF featureType = "village"
    THEN [tile EXCEPT !.type = "village", !.faithYield = 1]
    ELSE IF featureType = "sacred_well"
    THEN [tile EXCEPT !.type = "sacred_well", !.divinityYield = 3,
                      !.stability = 2, !.moveCost = 2]
    ELSE [tile EXCEPT !.type = "ancient_ruins", !.moveCost = 2,
                      !.eventTriggered = FALSE]

\* placeShadowSeeds, the placement itself
placeShadowSeed(tile) ==
    [tile EXCEPT !.corruption = 2, !.owner = Shadow, !.stability = 3]

\* feature and seed counts requested for a map area
villageCount(area) == (area * 2) \div 100
sacredWellCount(area) == area \div 100
ruinCount(area) == (area * 15) \div 1000
shadowCount(area) == area \div 100

\* placeShadowSeeds: a tile is skipped when closer to the map centre than
\* 0.3 * min(width, height), when impassable or when it holds a feature
seedAllowed(pos, tile, size) ==
    /\ 100 * ((2 * pos[1] - size.width) * (2 * pos[1] - size.width)
              + (2 * pos[2] - size.height) * (2 * pos[2] - size.height))
         >= 36 * Min(size.width, size.height) * Min(size.width, size.height)
    /\ ~tile.impassable
    /\ tile.type \notin {"village", "sacred_well", "ancient_ruins"}

\* placeFeatureType: a candidate cell is rejected when impassable, water, or
\* closer than minDistance to a feature of the same type placed before
featuresAllowed(cells, terrain, minDistance) ==
    /\ \A c \in cells : terrain[c] \notin {"mountain", "water"}
    /\ \A c, d \in cells : c # d => Manhattan(c, d) >= minDistance

\* What one run of generateMap draws: the terrain kind of every cell (from
\* the noise), the cells of each feature type and the Shadow seeds (from rng).
\* layout.terrain lists the cells that are not plains.
TerrainOf(layout) ==
    [k \in MapKeys(layout.size.width, layout.size.height) |->
        IF k \in DOMAIN layout.terrain THEN layout.terrain[k] ELSE "plains"]

generateMap(layout) ==
    LET terrain == TerrainOf(layout)
        base == [k \in DOMAIN terrain |-> generateTile(terrain[k])]
        feat == [k \in DOMAIN terrain |->
                    IF k \in layout.villages THEN placeFeature(base[k], "village")
                    ELSE IF k \in layout.wells THEN placeFeature(base[k], "sacred_well")
                    ELSE IF k \in layout.ruins THEN placeFeature(base[k], "ancient_ruins")
                    ELSE base[k]]
    IN [k \in DOMAIN terrain |->
            IF k \in layout.seeds THEN placeShadowSeed(feat[k]) ELSE feat[k]]

\* a layout generateMap can produce
ValidLayout(layout) ==
    LET area == layout.size.width * layout.size.height
        terrain == TerrainOf(layout)
        keys == DOMAIN terrain
        feat == generateMap([layout EXCEPT !.seeds = {}])
    IN /\ DOMAIN layout.terrain \subseteq keys
       /\ layout.villages \subseteq keys /\ layout.wells \subseteq keys
       /\ layout.ruins \subseteq keys /\ layout.seeds \subseteq keys
       /\ Cardinality(layout.villages) <= villageCount(area)
       /\ Cardinality(layout.wells) <= sacredWellCount(area)
       /\ Cardinality(layout.ruins) <= ruinCount(area)
       /\ Cardinality(layout.seeds) <= shadowCount(area)
       /\ featuresAllowed(layout.villages, terrain, 3)
       /\ featuresAllowed(layout.wells, terrain, 5)
       /\ featuresAllowed(layout.ruins, terrain, 4)
       /\ \A k \in layout.seeds : seedAllowed(k, feat[k], layout.size)

\* The maps drawn here.  Main map: a Shadow seed on a corner tile of the
\* first player's starting region, with mountains on three sides (one of
\* them inside the region), hills, a village, a sacred well and ruins within
\* reach.  Small map: a mountain and a village, no seed.
MainSize == [width |-> MapWidth, height |-> MapHeight]
SmallSize == [width |-> SmallMapSide, height |-> SmallMapSide]

MainLayout ==
    [ size |-> MainSize,
      terrain |-> (<<4, 5>> :> "mountain") @@ (<<3, 4>> :> "mountain")
                  @@ (<<4, 3>> :> "mountain") @@ (<<6, 3>> :> "hills"),
      villages |-> {<<3, 5>>},
      wells |-> {<<7, 4>>},
      ruins |-> {<<7, 6>>},
      seeds |-> {<<4, 4>>} ]

SmallLayout ==
    [ size |-> SmallSize,
      terrain |-> (<<4, 5>> :> "mountain"),
      villages |-> {<<7, 5>>},
      wells |-> {},
      ruins |-> {},
      seeds |-> {} ]

MapLayouts == {l \in {MainLayout, SmallLayout} : ValidLayout(l)}

\* -------------------------------------------------------------- GameState

\* Fields of the source left out because no reachable code changes them:
\* tile.id and tile.position (the key), tile.hasFortification, unit.abilities
\* and unit.cooldowns (always empty), player.relics and player.miracles
\* (always empty), state.activeGlobalEvents (always empty),
\* state.shadowAlignmentMeter (0 for every player), state.victoryThresholds
\* (the configured ones), mapSeed, difficulty, tileRichness, encircleRule
\* (false), relicFrequency.

EmptyFcn == [x \in {} |-> 0]

DefaultVictoryConditions == <<"conquest", "sanctifier", "shadow_accord">>

\* createEmptyState; id stands for the fresh uuid of the state
createEmptyState(id) ==
    [ id |-> id,
      turn |-> 0,
      phase |-> "setup",
      currentPlayer |-> "player",
      players |-> EmptyFcn,
      tiles |-> EmptyFcn,
      units |-> EmptyFcn,
      shadowInfluence |-> 0,
      neutralFactionAlignment |-> "neutral",
      victoryConditions |-> DefaultVictoryConditions,
      mapSize |-> [width |-> 40, height |-> 40],
      revealedTiles |-> {},
      shadowAggression |-> "normal" ]

\* keys of state.players in table (insertion) order
PlayerKeys(s) == SelectSeq(PlayerOwners, LAMBDA o : o \in DOMAIN s.players)

\* state.shadowAlignmentMeter.get(owner) || 0
shadowAlignment(s, owner) == 0

\* the PlayerState initializeGame builds for options.players[index - 1]
newPlayer(id, index, playerData) ==
    [ id |-> <<id, PlayerOwners[Min(index, 4)]>>,
      owner |-> PlayerOwners[Min(index, 4)],
      domain |-> playerData.domain,
      isAI |-> PlayerOwners[Min(index, 4)] # "player",
      divinity |-> BaseDivinity,
      faith |-> 0,
      shadowEnergy |-> 0,
      aegis |-> 0,
      units |-> << >>,
      ownedTiles |-> {},
      sanctifiedTiles |-> {},
      victoryProgress |-> EmptyFcn,
      capturedThisTurn |-> 0,
      sanctifiedThisTurn |-> 0,
      aiPersonality |-> playerData.aiPersonality ]

\* ids of the units reachable from the state
UnitIdsInUse(s) ==
    DOMAIN s.units \cup
    UNION {{s.players[o].units[i].id : i \in DOMAIN s.players[o].units} : o \in DOMAIN s.players}

SetMax(S) == IF S = {} THEN 0 ELSE CHOOSE m \in S : \A x \in S : x <= m

\* crypto.randomUUID() for a unit: an id no reachable unit has
newUnitId(s) == SetMax(UnitIdsInUse(s)) + 1

\* The engine's heap as the handlers see it: s is this.state, shared the ids of
\* the units whose entry in their owner's unit list and entry in the unit table
\* are one object, timers the pending setTimeout callbacks, oldest first.

\* startPositions of placeStartingPositions
startPositions(size) ==
    << <<5, 5>>, <<size.width - 6, size.height - 6>>,
       <<5, size.height - 6>>, <<size.width - 6, 5>> >>

startBlock(startPos) ==
    {<<startPos[1] + dx, startPos[2] + dy>> : dx \in -1 .. 1, dy \in -1 .. 1}

\* placeStartingPositions, the body of players.forEach for one player
placeStart(e, owner, startPos) ==
    LET s == e.s
        player == s.players[owner]
        given == {k \in startBlock(startPos) :
                     k \in DOMAIN s.tiles /\ ~s.tiles[k].impassable}
        tiles1 == [k \in DOMAIN s.tiles |->
                     IF k \notin given THEN s.tiles[k]
                     ELSE IF k = startPos
                     THEN [s.tiles[k] EXCEPT !.owner = owner, !.stability = 3,
                                             !.sanctified = TRUE,
                                             !.domainAttunement = player.domain]
                     ELSE [s.tiles[k] EXCEPT !.owner = owner, !.stability = 3]]
        explorer == [ id |-> newUnitId(s), type |-> "explorer", owner |-> owner,
                      position |-> startPos, movePoints |-> 3, maxMovePoints |-> 3,
                      perception |-> 1, turnsAlive |-> 0 ]
        player1 == [player EXCEPT
                      !.ownedTiles = @ \cup given,
                      !.sanctifiedTiles = @ \cup (given \cap {startPos}),
                      !.units = Append(@, explorer)]
    IN [e EXCEPT !.s = [s EXCEPT !.tiles = tiles1,
                                 !.players = [@ EXCEPT ![owner] = player1],
                                 !.revealedTiles = @ \cup given,
                                 !.units = (explorer.id :> explorer) @@ @],
                 !.shared = @ \cup {explorer.id}]

RECURSIVE placeFrom(_, _)
placeFrom(e, index) ==
    IF index > Len(PlayerKeys(e.s)) \/ index > 4 THEN e
    ELSE placeFrom(placeStart(e, PlayerKeys(e.s)[index],
                              startPositions(e.s.mapSize)[index]), index + 1)

placeStartingPositions(e) == placeFrom(e, 1)

\* ShadowSystem.initializeShadow
initializeShadow(s) ==
    [s EXCEPT !.shadowInfluence = CASE s.shadowAggression = "low" -> 10
                                    [] s.shadowAggression = "normal" -> 20
                                    [] s.shadowAggression = "high" -> 35
                                    [] OTHER -> @,
              !.neutralFactionAlignment = "neutral"]

\* ---------------------------------------------------------- units (heap)

\* A write through the entries of owner's unit list: F is applied to every
\* object of the list; an object that is also the unit table's entry for its
\* id shows the write there too.
mapListUnits(e, owner, F(_)) ==
    LET us == e.s.players[owner].units
        inList(id) == \E i \in DOMAIN us : us[i].id = id
        entry(id) == us[CHOOSE i \in DOMAIN us : us[i].id = id]
    IN [e EXCEPT
          !.s.players[owner].units = [i \in DOMAIN us |-> F(us[i])],
          !.s.units = [id \in DOMAIN e.s.units |->
                          IF id \in e.shared /\ inList(id) THEN F(entry(id))
                          ELSE e.s.units[id]]]

\* A write through state.units.get(id): an object that is also an entry of
\* its owner's unit list shows the write there too.
setTableUnit(e, id, unit) ==
    [e EXCEPT
       !.s.units[id] = unit,
       !.s.players = [o \in DOMAIN e.s.players |->
            [e.s.players[o] EXCEPT !.units =
                [i \in DOMAIN @ |-> IF id \in e.shared /\ @[i].id = id
                                    THEN unit ELSE @[i]]]]]

\* ------------------------------------------------------- FogOfWarSystem

\* calculateUnitPerception (no relics are ever held)
calculateUnitPerception(s, unit) ==
    unit.perception +
    (IF /\ unit.position \in DOMAIN s.tiles
        /\ s.tiles[unit.position].type = "hills"
        /\ unit.owner \in DOMAIN s.players
        /\ s.players[unit.owner].domain = "air"
     THEN 1 ELSE 0)

\* revealTilesAroundUnit that lights hidden tiles only
revealTilesAroundUnitHiddenOnly(s, unit) ==
    LET seen == {k \in getTilesInRadius(unit.position, calculateUnitPerception(s, unit),
                                        s.mapSize) \cap DOMAIN s.tiles :
                    s.tiles[k].visibility = Hidden}
    IN [s EXCEPT !.tiles = [k \in DOMAIN s.tiles |->
                               IF k \in seen THEN [s.tiles[k] EXCEPT !.visibility = Visible]
                               ELSE s.tiles[k]],
                 !.revealedTiles = @ \cup seen]

\* revealTilesAroundUnit
revealTilesAroundUnit(s, unit) ==
    LET seen == getTilesInRadius(unit.position, calculateUnitPerception(s, unit), s.mapSize)
                   \cap DOMAIN s.tiles
    IN [s EXCEPT !.tiles = [k \in DOMAIN s.tiles |->
                               IF k \in seen THEN [s.tiles[k] EXCEPT !.visibility = Visible]
                               ELSE s.tiles[k]],
                 !.revealedTiles = @ \cup seen]

RECURSIVE revealUnits(_, _, _)
revealUnits(s, units, i) ==
    IF i > Len(units) THEN s
    ELSE revealUnits(revealTilesAroundUnit(s, units[i]), units, i + 1)

\* updateVisibility that hides what was Visible instead of keeping it Seen
updateVisibilityForgets(s) ==
    IF s.currentPlayer \notin DOMAIN s.players THEN s
    ELSE
    LET currentPlayer == s.players[s.currentPlayer]
        s1 == [s EXCEPT !.tiles = [k \in DOMAIN s.tiles |->
                        IF s.tiles[k].visibility = Visible
                        THEN [s.tiles[k] EXCEPT !.visibility = Hidden] ELSE s.tiles[k]]]
        s2 == revealUnits(s1, currentPlayer.units, 1)
        sanct == currentPlayer.sanctifiedTiles \cap DOMAIN s.tiles
        near == {n \in DOMAIN s.tiles :
                    \E k \in sanct : n \in Range(getNeighbors(k, s.mapSize))}
        dim == {n \in near \ sanct : s2.tiles[n].visibility = Hidden}
    IN [s2 EXCEPT !.tiles = [k \in DOMAIN s.tiles |->
                        IF k \in sanct THEN [s2.tiles[k] EXCEPT !.visibility = Visible]
                        ELSE IF k \in dim THEN [s2.tiles[k] EXCEPT !.visibility = Seen]
                        ELSE s2.tiles[k]],
                  !.revealedTiles = @ \cup sanct \cup dim]

\* updateVisibility
updateVisibility(s) ==
    IF s.currentPlayer \notin DOMAIN s.players THEN s
    ELSE
    LET currentPlayer == s.players[s.currentPlayer]
        s1 == [s EXCEPT !.tiles = [k \in DOMAIN s.tiles |->
                        IF s.tiles[k].visibility = Visible
                        THEN [s.tiles[k] EXCEPT !.visibility = Seen] ELSE s.tiles[k]]]
        s2 == revealUnits(s1, currentPlayer.units, 1)
        sanct == currentPlayer.sanctifiedTiles \cap DOMAIN s.tiles
        near == {n \in DOMAIN s.tiles :
                    \E k \in sanct : n \in Range(getNeighbors(k, s.mapSize))}
        dim == {n \in near \ sanct : s2.tiles[n].visibility = Hidden}
    IN [s2 EXCEPT !.tiles = [k \in DOMAIN s.tiles |->
                        IF k \in sanct THEN [s2.tiles[k] EXCEPT !.visibility = Visible]
                        ELSE IF k \in dim THEN [s2.tiles[k] EXCEPT !.visibility = Seen]
                        ELSE s2.tiles[k]],
                  !.revealedTiles = @ \cup sanct \cup dim]

\* ------------------------------------------------------------ TurnSystem

RECURSIVE SumOver(_, _)
SumOver(S, f) ==
    IF S = {} THEN 0
    ELSE LET x == CHOOSE y \in S : TRUE IN f[x] + SumOver(S \ {x}, f)

\* calculateDivinityIncome (no domain bonus, no relics)
calculateDivinityIncome(s, player) ==
    LET owned == player.ownedTiles \cap DOMAIN s.tiles
    IN Min(MaxDivinityPerTurn,
           BaseDivinity + SumOver(owned, [k \in owned |-> s.tiles[k].divinityYield]))

\* calculateFaithIncome
calculateFaithIncome(s, player) ==
    LET owned == player.ownedTiles \cap DOMAIN s.tiles
        villages == {k \in owned : s.tiles[k].type = "village"}
    IN Min(MaxFaithPerTurn,
           SumOver(owned, [k \in owned |-> s.tiles[k].faithYield])
           + (IF player.domain = "life" THEN Cardinality(villages) ELSE 0))

\* calculateShadowEnergyIncome: floor of 0.5 per corrupted owned tile
calculateShadowEnergyIncome(s, player) ==
    LET owned == player.ownedTiles \cap DOMAIN s.tiles
        corrupted == {k \in owned : s.tiles[k].corruption > 0}
    IN IF player.domain \in {"death", "chaos"} THEN Cardinality(corrupted) \div 2 ELSE 0

\* refreshUnit (cooldowns are always empty)
refreshUnit(unit) == [unit EXCEPT !.movePoints = unit.maxMovePoints]

\* TurnSystem.startTurn that lets a wight live for two turns of its owner
turnSystemStartTurnLate(e, owner) ==
    LET s == e.s
        player == s.players[owner]
        e1 == [e EXCEPT
                 !.s.players[owner].divinity = calculateDivinityIncome(s, player),
                 !.s.players[owner].faith = @ + calculateFaithIncome(s, player),
                 !.s.players[owner].shadowEnergy =
                     Min(MaxShadowEnergy, @ + calculateShadowEnergyIncome(s, player))]
        e2 == mapListUnits(e1, owner, refreshUnit)
        us == e2.s.players[owner].units
        expired(u) == u.type = "wight" /\ u.turnsAlive >= 3
        gone == {us[i].id : i \in {j \in DOMAIN us : expired(us[j])}}
    IN [e2 EXCEPT
          !.s.players[owner].units = SelectSeq(us, LAMBDA u : ~expired(u)),
          !.s.units = [id \in DOMAIN e2.s.units \ gone |-> e2.s.units[id]],
          !.shared = @ \ gone,
          !.s.players[owner].capturedThisTurn = 0,
          !.s.players[owner].sanctifiedThisTurn = 0]

\* TurnSystem.startTurn for the player at key owner
turnSystemStartTurn(e, owner) ==
    LET s == e.s
        player == s.players[owner]
        e1 == [e EXCEPT
                 !.s.players[owner].divinity = calculateDivinityIncome(s, player),
                 !.s.players[owner].faith = @ + calculateFaithIncome(s, player),
                 !.s.players[owner].shadowEnergy =
                     Min(MaxShadowEnergy, @ + calculateShadowEnergyIncome(s, player))]
        e2 == mapListUnits(e1, owner, refreshUnit)
        us == e2.s.players[owner].units
        expired(u) == u.type = "wight" /\ u.turnsAlive >= 1
        gone == {us[i].id : i \in {j \in DOMAIN us : expired(us[j])}}
    IN [e2 EXCEPT
          !.s.players[owner].units = SelectSeq(us, LAMBDA u : ~expired(u)),
          !.s.units = [id \in DOMAIN e2.s.units \ gone |-> e2.s.units[id]],
          !.shared = @ \ gone,
          !.s.players[owner].capturedThisTurn = 0,
          !.s.players[owner].sanctifiedThisTurn = 0]

\* Math.floor(x * this.config.shadowSpread.base)
floorTimesSpreadBase(x) == (x * ShadowSpreadBasePct) \div 100

\* TurnSystem.endTurn (the relic and active-effect hooks are empty)
turnSystemEndTurn(e, owner) ==
    LET e1 == [e EXCEPT
                 !.s.players[owner].aegis = floorTimesSpreadBase(e.s.players[owner].divinity),
                 !.s.players[owner].divinity = 0]
    IN mapListUnits(e1, owner, LAMBDA u : [u EXCEPT !.turnsAlive = @ + 1])

\* ----------------------------------------------------------- EventSystem

\* keys of state.tiles in iteration (insertion) order: generateMap pushes
\* x-major, y-minor
keysFrom(size) ==
    [i \in 1 .. size.width * size.height |->
        Key((i - 1) \div size.height, (i - 1) % size.height)]

tileKeysInOrder(s) ==
    IF s.tiles = EmptyFcn THEN << >> ELSE keysFrom(s.mapSize)

RemoveAt(seq, i) == SubSeq(seq, 1, i - 1) \o SubSeq(seq, i + 1, Len(seq))

\* Math.floor(Math.random() * length) as drawn in revealRandomTiles
RevealDraws(length) == {0}

\* revealRandomTiles: the loop, with hiddenTiles spliced at every pick and
\* its bound Math.min(count, hiddenTiles.length) read again at every pass
RECURSIVE revealLoop(_, _, _, _)
revealLoop(s, hiddenTiles, count, i) ==
    IF i >= Min(count, Len(hiddenTiles)) THEN {s}
    ELSE UNION {
        LET tileKey == hiddenTiles[randomIndex + 1]
            s1 == [s EXCEPT !.tiles[tileKey].visibility = Seen,
                            !.revealedTiles = @ \cup {tileKey}]
        IN revealLoop(s1, RemoveAt(hiddenTiles, randomIndex + 1), count, i + 1)
        : randomIndex \in RevealDraws(Len(hiddenTiles)) }

revealRandomTiles(s, count) ==
    revealLoop(s, SelectSeq(tileKeysInOrder(s), LAMBDA k : s.tiles[k].visibility = Hidden),
               count, 0)

\* processEvents: no global event is ever active; checkForRandomEvents rolls
\* for one of the two events of the pool
processEvents(s) ==
    IF s.currentPlayer \notin DOMAIN s.players THEN {s}
    ELSE LET o == s.currentPlayer IN
         {s}
         \cup revealRandomTiles(
                [s EXCEPT !.players[o].divinity = Min(MaxDivinityPerTurn, @ + 3)], 5)
         \cup {[s EXCEPT !.players[o].faith = @ + 3]}

\* ---------------------------------------------------------- ShadowSystem

\* spreadShadow, the scan: every (source, neighbour) pair that rolls.  A source
\* is a tile with corruption >= 1 or owned by Shadow; a neighbour is skipped
\* when impassable or already at corruption 2 under Shadow.
spreadCandidates(s) ==
    LET sources == {k \in DOMAIN s.tiles :
                       ~(s.tiles[k].corruption < 1 /\ s.tiles[k].owner # Shadow)}
        open(n) == /\ n \in DOMAIN s.tiles
                   /\ ~s.tiles[n].impassable
                   /\ ~(s.tiles[n].corruption >= 2 /\ s.tiles[n].owner = Shadow)
    IN UNION {{<<k, n>> : n \in {m \in Range(getNeighbors(k, s.mapSize)) : open(m)}}
              : k \in sources}

\* the sets of rolls that can succeed in one pass: each roll has a probability
\* clamped into [0.02, 0.60]
spreadRolls(s) ==
    {hits \in SUBSET spreadCandidates(s) : Cardinality(hits) <= MaxSpreadHits}

\* tilesToCorrupt after the scan: each successful roll adds 1, starting from
\* the neighbour's corruption at the time of the scan
tilesToCorrupt(s, hits) ==
    LET targets == {pair[2] : pair \in hits}
    IN [k \in targets |->
           s.tiles[k].corruption + Cardinality({pair \in hits : pair[2] = k})]

\* updateNeutralAlignment
updateNeutralAlignment(s) ==
    [s EXCEPT !.neutralFactionAlignment =
        IF s.shadowInfluence > 60 THEN "hostile"
        ELSE IF s.shadowInfluence > 30 THEN "neutral" ELSE "friendly"]

\* spreadShadow for one outcome of the rolls, the level applied as counted
spreadShadowWithUnclamped(s, hits) ==
    LET levels == tilesToCorrupt(s, hits)
        converted == {k \in DOMAIN levels : levels[k] >= 2}
        lost(o) == {k \in converted : s.tiles[k].owner = o}
        tiles1 == [k \in DOMAIN s.tiles |->
                     IF k \in converted
                     THEN [s.tiles[k] EXCEPT !.corruption = levels[k],
                                             !.owner = Shadow, !.stability = 3,
                                             !.sanctified = FALSE,
                                             !.domainAttunement = NoDomain]
                     ELSE IF k \in DOMAIN levels
                     THEN [s.tiles[k] EXCEPT !.corruption = levels[k]]
                     ELSE s.tiles[k]]
        players1 == [o \in DOMAIN s.players |->
                       [s.players[o] EXCEPT !.ownedTiles = @ \ lost(o),
                                            !.sanctifiedTiles = @ \ lost(o)]]
    IN updateNeutralAlignment(
         [s EXCEPT !.tiles = tiles1, !.players = players1,
                   !.shadowInfluence = Min(100, @ + Cardinality(converted))])

\* spreadShadow for one outcome of the rolls
spreadShadowWith(s, hits) ==
    LET levels == tilesToCorrupt(s, hits)
        converted == {k \in DOMAIN levels : Min(2, levels[k]) >= 2}
        lost(o) == {k \in converted : s.tiles[k].owner = o}
        tiles1 == [k \in DOMAIN s.tiles |->
                     IF k \in converted
                     THEN [s.tiles[k] EXCEPT !.corruption = Min(2, levels[k]),
                                             !.owner = Shadow, !.stability = 3,
                                             !.sanctified = FALSE,
                                             !.domainAttunement = NoDomain]
                     ELSE IF k \in DOMAIN levels
                     THEN [s.tiles[k] EXCEPT !.corruption = Min(2, levels[k])]
                     ELSE s.tiles[k]]
        players1 == [o \in DOMAIN s.players |->
                       [s.players[o] EXCEPT !.ownedTiles = @ \ lost(o),
                                            !.sanctifiedTiles = @ \ lost(o)]]
    IN updateNeutralAlignment(
         [s EXCEPT !.tiles = tiles1, !.players = players1,
                   !.shadowInfluence = Min(100, @ + Cardinality(converted))])

spreadShadow(s) == { spreadShadowWith(s, hits) : hits \in spreadRolls(s) }

\* --------------------------------------------------------- VictorySystem

\* A progress value (a percentage in the source) is kept as the fraction it
\* is computed from: <<numerator, denominator>>.

isHolySite(tileType) == tileType \in {"sacred_well", "ancient_ruins"}

\* checkConquestVictory with a threshold of one half
checkConquestVictoryHalf(s, player) ==
    LET revealedCount == Cardinality(s.revealedTiles)
        ownedCount == Cardinality(player.ownedTiles)
    IN IF revealedCount = 0 THEN ownedCount > 0
       ELSE ownedCount * 2 >= revealedCount

\* checkConquestVictory: percentage >= threshold, a division by zero giving
\* NaN (0/0, never >=) or Infinity (n/0)
checkConquestVictory(s, player) ==
    LET revealedCount == Cardinality(s.revealedTiles)
        ownedCount == Cardinality(player.ownedTiles)
    IN IF revealedCount = 0 THEN ownedCount > 0
       ELSE ownedCount * 100 >= ConquestThresholdPct * revealedCount

holySitesCount(s, player) ==
    Cardinality({k \in player.sanctifiedTiles \cap DOMAIN s.tiles : isHolySite(s.tiles[k].type)})

checkSanctifierVictory(s, player) == holySitesCount(s, player) >= SanctifySitesThreshold

checkShadowAccordVictory(s, player) ==
    shadowAlignment(s, player.owner) >= ShadowAccordThreshold

checkRelicAscensionVictory(s, player) == 0 >= RelicCountThreshold

\* checkPlayerVictoryCondition, the verdict
checkPlayerVictoryCondition(s, player, condition) ==
    CASE condition = "conquest" -> checkConquestVictory(s, player)
      [] condition = "sanctifier" -> checkSanctifierVictory(s, player)
      [] condition = "shadow_accord" -> checkShadowAccordVictory(s, player)
      [] condition = "relic_ascension" -> checkRelicAscensionVictory(s, player)
      [] OTHER -> FALSE

\* checkPlayerVictoryCondition, the progress value it stores on the way
progressValue(s, player, condition) ==
    CASE condition = "conquest" ->
            <<Cardinality(player.ownedTiles), Cardinality(s.revealedTiles)>>
      [] condition = "sanctifier" -> <<holySitesCount(s, player), SanctifySitesThreshold>>
      [] condition = "shadow_accord" ->
            <<shadowAlignment(s, player.owner), ShadowAccordThreshold>>
      [] OTHER -> <<0, RelicCountThreshold>>

\* checkDefeatConditions with a threshold of 80%
checkDefeatConditionsFourFifths(s) ==
    LET passable == {k \in DOMAIN s.tiles : ~s.tiles[k].impassable}
        shadowTiles == {k \in passable : s.tiles[k].owner = Shadow}
    IN passable # {} /\ Cardinality(shadowTiles) * 100 >= 80 * Cardinality(passable)

\* checkDefeatConditions: Shadow owns at least 60% of the passable tiles
checkDefeatConditions(s) ==
    LET passable == {k \in DOMAIN s.tiles : ~s.tiles[k].impassable}
        shadowTiles == {k \in passable : s.tiles[k].owner = Shadow}
    IN passable # {} /\ Cardinality(shadowTiles) * 100 >= 60 * Cardinality(passable)

NoWinner == "null"

\* checkVictory: the nested loops, player by player and condition by
\* condition, stopping at the first condition met; r.s is the state with the
\* progress values stored so far, r.winner and r.condition the object returned
RECURSIVE checkVictoryFrom(_, _, _)
checkVictoryFrom(s, pi, ci) ==
    LET keys == PlayerKeys(s) IN
    IF pi > Len(keys)
    THEN IF checkDefeatConditions(s)
         THEN [s |-> s, winner |-> Shadow, condition |-> NoWinner]
         ELSE [s |-> s, winner |-> NoWinner, condition |-> NoWinner]
    ELSE IF ci > Len(s.victoryConditions) THEN checkVictoryFrom(s, pi + 1, 1)
    ELSE LET owner == keys[pi]
             condition == s.victoryConditions[ci]
             player == s.players[owner]
             s1 == [s EXCEPT !.players[owner].victoryProgress =
                        (condition :> progressValue(s, player, condition)) @@ @]
         IN IF checkPlayerVictoryCondition(s, player, condition)
            THEN [s |-> s1, winner |-> owner, condition |-> condition]
            ELSE checkVictoryFrom(s1, pi, ci + 1)

checkVictory(s) == checkVictoryFrom(s, 1, 1)

\* --------------------------------------------------------- CaptureSystem

\* A GameAction as submitted: type, playerId, targetTile (a position or
\* NoTile), unitId (or NoUnit), abilityId, miracleId (an id or NoValue) and cost.  A
\* cost field that is absent reads as 0 wherever the source reads it
\* (cost.divinity && ..., cost?.divinity || 0), so cost is kept as three
\* numbers and an absent cost as all zero.
NoValue == "undefined"
\* an absent targetTile and an absent unitId (unit ids start at 1)
NoTile == << >>
NoUnit == 0
NoCost == [divinity |-> 0, faith |-> 0, shadowEnergy |-> 0]

\* calculateAdjacencyBonus with the larger bonus from three owned neighbours
calculateAdjacencyBonusThree(s, player, pos) ==
    LET ns == getNeighbors(pos, s.mapSize)
        ownedNeighborCount ==
            Cardinality({i \in DOMAIN ns :
                ns[i] \in DOMAIN s.tiles /\ s.tiles[ns[i]].owner = player.owner})
    IN IF ownedNeighborCount >= 3 THEN 2
       ELSE IF ownedNeighborCount >= 2 THEN 1 ELSE 0

\* calculateAdjacencyBonus
calculateAdjacencyBonus(s, player, pos) ==
    LET ns == getNeighbors(pos, s.mapSize)
        ownedNeighborCount ==
            Cardinality({i \in DOMAIN ns :
                ns[i] \in DOMAIN s.tiles /\ s.tiles[ns[i]].owner = player.owner})
    IN IF ownedNeighborCount >= 4 THEN 2
       ELSE IF ownedNeighborCount >= 2 THEN 1 ELSE 0

\* getDomainCaptureModifier, in halves
getDomainCaptureModifier2(domain, tile) ==
    IF domain = "fire" /\ tile.type \in {"desert", "hills"} THEN -2
    ELSE IF domain = "order" THEN -1
    ELSE 0

\* calculateUnitSupport: heralds of the player at distance 1
calculateUnitSupport(player, pos) ==
    Cardinality({i \in DOMAIN player.units :
        player.units[i].type = "herald" /\ Manhattan(player.units[i].position, pos) = 1})

\* calculateCaptureCost reduced to the base cost
calculateCaptureCostBase(s, player, pos) == CaptureBaseCost

\* calculateCaptureCost (no relics are ever held)
calculateCaptureCost(s, player, pos) ==
    LET tile == s.tiles[pos]
        cost2 == 2 * (CaptureBaseCost + tile.stability
                      - calculateAdjacencyBonus(s, player, pos)
                      - calculateUnitSupport(player, pos)
                      + (IF tile.corruption > 0 THEN 1 ELSE 0))
                 + getDomainCaptureModifier2(player.domain, tile)
    IN Max(1, cost2 \div 2)

\* spawnWight
spawnWight(e, owner, pos) ==
    LET wight == [ id |-> newUnitId(e.s), type |-> "wight", owner |-> owner,
                   position |-> pos, movePoints |-> 0, maxMovePoints |-> 0,
                   perception |-> 0, turnsAlive |-> 0 ]
    IN [e EXCEPT !.s.players[owner].units = Append(@, wight),
                 !.s.units = (wight.id :> wight) @@ @,
                 !.shared = @ \cup {wight.id}]

\* applyDomainCaptureEffects
applyDomainCaptureEffects(e, owner, pos) ==
    LET domain == e.s.players[owner].domain IN
    CASE domain = "death" -> spawnWight(e, owner, pos)
      [] domain = "life" -> [e EXCEPT !.s.players[owner].faith = @ + 1]
      [] domain = "order" -> [e EXCEPT !.s.tiles[pos].stability = Min(10, @ + 1)]
      [] OTHER -> e

\* triggerTileEvents without the check of eventTriggered
triggerTileEventsAgain(e, owner, pos) ==
    LET tile == e.s.tiles[pos] IN
    CASE tile.type = "ancient_ruins" ->
            [e EXCEPT !.s.tiles[pos].eventTriggered = TRUE]
      [] tile.type = "sacred_well" ->
            [e EXCEPT !.s.players[owner].divinity = @ + 2,
                      !.s.players[owner].faith = @ + 1,
                      !.s.tiles[pos].eventTriggered = TRUE]
      [] tile.type = "village" ->
            IF shadowAlignment(e.s, owner) < -20
            THEN [e EXCEPT !.s.tiles[pos].stability = Max(1, @ - 1),
                           !.s.tiles[pos].eventTriggered = TRUE]
            ELSE [e EXCEPT !.s.players[owner].faith = @ + 1,
                           !.s.tiles[pos].eventTriggered = TRUE]
      [] OTHER -> e

\* triggerTileEvents
triggerTileEvents(e, owner, pos) ==
    LET tile == e.s.tiles[pos] IN
    IF tile.eventTriggered THEN e
    ELSE CASE tile.type = "ancient_ruins" ->
                [e EXCEPT !.s.tiles[pos].eventTriggered = TRUE]
           [] tile.type = "sacred_well" ->
                [e EXCEPT !.s.players[owner].divinity = @ + 2,
                          !.s.players[owner].faith = @ + 1,
                          !.s.tiles[pos].eventTriggered = TRUE]
           [] tile.type = "village" ->
                IF shadowAlignment(e.s, owner) < -20
                THEN [e EXCEPT !.s.tiles[pos].stability = Max(1, @ - 1),
                               !.s.tiles[pos].eventTriggered = TRUE]
                ELSE [e EXCEPT !.s.players[owner].faith = @ + 1,
                               !.s.tiles[pos].eventTriggered = TRUE]
           [] OTHER -> e

\* A handler's result: the heap after it, the value it returns and the cost
\* field it leaves on the action.
Result(e, ok, cost) == [e |-> e, ok |-> ok, cost |-> cost]

\* executeCapture that refuses every capture
executeCaptureNever(e, action) == Result(e, FALSE, action.cost)

\* executeCapture that leaves a sanctification in place
executeCaptureKeepsSanctity(e, action) ==
    LET s == e.s
        pos == action.targetTile
        owner == s.currentPlayer
    IN
    IF pos = NoTile THEN Result(e, FALSE, action.cost)
    ELSE IF owner \notin DOMAIN s.players THEN Result(e, FALSE, action.cost)
    ELSE IF pos \notin DOMAIN s.tiles \/ s.tiles[pos].impassable
    THEN Result(e, FALSE, action.cost)
    ELSE IF s.tiles[pos].owner = s.players[owner].owner THEN Result(e, FALSE, action.cost)
    ELSE
    LET player == s.players[owner]
        tile == s.tiles[pos]
        cost == calculateCaptureCost(s, player, pos)
        previousOwner == tile.owner
        players1 == [o \in DOMAIN s.players |->
                       IF o = previousOwner /\ o # owner
                       THEN [s.players[o] EXCEPT !.ownedTiles = @ \ {pos},
                                                 !.sanctifiedTiles = @ \ {pos}]
                       ELSE s.players[o]]
        tile1 == [tile EXCEPT
                    !.owner = player.owner,
                    !.stability = Max(1, tile.stability - 1)]
        e1 == [e EXCEPT !.s.players = players1,
                        !.s.players[owner].ownedTiles = @ \cup {pos},
                        !.s.players[owner].divinity = @ - cost,
                        !.s.players[owner].capturedThisTurn = @ + 1,
                        !.s.tiles[pos] = tile1]
    IN IF player.divinity < cost THEN Result(e, FALSE, action.cost)
       ELSE Result(triggerTileEvents(applyDomainCaptureEffects(e1, owner, pos), owner, pos),
                   TRUE, [NoCost EXCEPT !.divinity = cost])

\* executeCapture
executeCapture(e, action) ==
    LET s == e.s
        pos == action.targetTile
        owner == s.currentPlayer
    IN
    IF pos = NoTile THEN Result(e, FALSE, action.cost)
    ELSE IF owner \notin DOMAIN s.players THEN Result(e, FALSE, action.cost)
    ELSE IF pos \notin DOMAIN s.tiles \/ s.tiles[pos].impassable
    THEN Result(e, FALSE, action.cost)
    ELSE IF s.tiles[pos].owner = s.players[owner].owner THEN Result(e, FALSE, action.cost)
    ELSE
    LET player == s.players[owner]
        tile == s.tiles[pos]
        cost == calculateCaptureCost(s, player, pos)
        previousOwner == tile.owner
        players1 == [o \in DOMAIN s.players |->
                       IF o = previousOwner /\ o # owner
                       THEN [s.players[o] EXCEPT !.ownedTiles = @ \ {pos},
                                                 !.sanctifiedTiles = @ \ {pos}]
                       ELSE s.players[o]]
        tile1 == [tile EXCEPT
                    !.owner = player.owner,
                    !.stability = Max(1, tile.stability - 1),
                    !.sanctified = FALSE,
                    !.domainAttunement = IF tile.sanctified THEN NoDomain ELSE @,
                    !.divinityYield = IF tile.sanctified /\ @ > 0 THEN Max(0, @ - 1) ELSE @]
        e1 == [e EXCEPT !.s.players = players1,
                        !.s.players[owner].ownedTiles = @ \cup {pos},
                        !.s.players[owner].divinity = @ - cost,
                        !.s.players[owner].capturedThisTurn = @ + 1,
                        !.s.tiles[pos] = tile1]
    IN IF player.divinity < cost THEN Result(e, FALSE, action.cost)
       ELSE Result(triggerTileEvents(applyDomainCaptureEffects(e1, owner, pos), owner, pos),
                   TRUE, [NoCost EXCEPT !.divinity = cost])

\* ------------------------------------------------------------ GameEngine

\* The engine's heap is the record e: s is this.state, shared and timers as
\* above, actionHistory is this.actionHistory, gen numbers the generation of
\* the objects of this.state (a new one at every initializeGame and every
\* importState), orphans keeps, per older generation, the player objects
\* that pending callbacks still hold.

\* validateAction without the comparison of the action's playerId with the
\* current player's id
validateActionAnyPlayer(e, action) ==
    LET s == e.s IN
    /\ s.currentPlayer \in DOMAIN s.players
    /\ LET player == s.players[s.currentPlayer] IN
       /\ ~(action.cost.divinity # 0 /\ player.divinity < action.cost.divinity)
       /\ ~(action.cost.faith # 0 /\ player.faith < action.cost.faith)
       /\ ~(action.cost.shadowEnergy # 0 /\ player.shadowEnergy < action.cost.shadowEnergy)

\* validateAction
validateAction(e, action) ==
    LET s == e.s IN
    /\ s.currentPlayer \in DOMAIN s.players
    /\ s.players[s.currentPlayer].id = action.playerId
    /\ LET player == s.players[s.currentPlayer] IN
       /\ ~(action.cost.divinity # 0 /\ player.divinity < action.cost.divinity)
       /\ ~(action.cost.faith # 0 /\ player.faith < action.cost.faith)
       /\ ~(action.cost.shadowEnergy # 0 /\ player.shadowEnergy < action.cost.shadowEnergy)

\* the guard the manage and sanctify handlers share: a target tile that
\* exists and a current player
hasTileAndPlayer(e, action) ==
    /\ action.targetTile # NoTile
    /\ action.targetTile \in DOMAIN e.s.tiles
    /\ e.s.currentPlayer \in DOMAIN e.s.players

\* executeMove
executeMove(e, action) ==
    IF action.unitId \notin DOMAIN e.s.units \/ action.targetTile = NoTile
    THEN Result(e, FALSE, action.cost)
    ELSE IF action.targetTile \notin DOMAIN e.s.tiles
            \/ e.s.tiles[action.targetTile].impassable
    THEN Result(e, FALSE, action.cost)
    ELSE
    LET unit == e.s.units[action.unitId]
        targetTile == e.s.tiles[action.targetTile]
        moveCost == Manhattan(unit.position, action.targetTile) * targetTile.moveCost
        moved == [unit EXCEPT !.position = action.targetTile,
                              !.movePoints = @ - moveCost]
        e1 == setTableUnit(e, action.unitId, moved)
    IN IF unit.movePoints < moveCost THEN Result(e, FALSE, action.cost)
       ELSE Result([e1 EXCEPT !.s = revealTilesAroundUnit(e1.s, moved)], TRUE, action.cost)

\* executeFortify
executeFortify(e, action) ==
    LET pos == action.targetTile
        owner == e.s.currentPlayer
    IN
    IF ~hasTileAndPlayer(e, action) THEN Result(e, FALSE, action.cost)
    ELSE IF e.s.tiles[pos].owner # e.s.players[owner].owner THEN Result(e, FALSE, action.cost)
    ELSE IF e.s.tiles[pos].stability >= StabilityCap THEN Result(e, FALSE, action.cost)
    ELSE Result([e EXCEPT !.s.tiles[pos].stability = Min(@ + 2, StabilityCap),
                          !.s.players[owner].divinity = @ - action.cost.divinity],
                TRUE, action.cost)

\* executePurify
executePurify(e, action) ==
    LET pos == action.targetTile
        owner == e.s.currentPlayer
    IN
    IF ~hasTileAndPlayer(e, action) THEN Result(e, FALSE, action.cost)
    ELSE IF e.s.tiles[pos].corruption = 0 THEN Result(e, FALSE, action.cost)
    ELSE LET tile == e.s.tiles[pos]
             corruption == Max(0, tile.corruption - 1)
             tile1 == [tile EXCEPT
                         !.corruption = corruption,
                         !.owner = IF corruption = 0 /\ tile.owner = Shadow
                                   THEN Neutral ELSE @,
                         !.stability = Min(@ + 1, StabilityCap)]
         IN Result([e EXCEPT !.s.tiles[pos] = tile1,
                             !.s.players[owner].divinity = @ - action.cost.divinity],
                   TRUE, action.cost)

\* executeBuildShrine
executeBuildShrine(e, action) ==
    LET pos == action.targetTile
        owner == e.s.currentPlayer
    IN
    IF ~hasTileAndPlayer(e, action) THEN Result(e, FALSE, action.cost)
    ELSE IF e.s.tiles[pos].owner # e.s.players[owner].owner \/ e.s.tiles[pos].hasShrine
    THEN Result(e, FALSE, action.cost)
    ELSE Result([e EXCEPT !.s.tiles[pos].hasShrine = TRUE,
                          !.s.tiles[pos].divinityYield = @ + 2,
                          !.s.tiles[pos].faithYield = @ + 1,
                          !.s.players[owner].divinity = @ - action.cost.divinity],
                TRUE, action.cost)

\* executeSanctify
executeSanctify(e, action) ==
    LET pos == action.targetTile
        owner == e.s.currentPlayer
    IN
    IF ~hasTileAndPlayer(e, action) THEN Result(e, FALSE, action.cost)
    ELSE IF e.s.tiles[pos].owner # e.s.players[owner].owner \/ e.s.tiles[pos].sanctified
    THEN Result(e, FALSE, action.cost)
    ELSE Result([e EXCEPT !.s.tiles[pos].sanctified = TRUE,
                          !.s.tiles[pos].domainAttunement = e.s.players[owner].domain,
                          !.s.tiles[pos].divinityYield = @ + 1,
                          !.s.tiles[pos].stability = Min(@ + 1, StabilityCap),
                          !.s.tiles[pos].corruption = 0,
                          !.s.players[owner].sanctifiedTiles = @ \cup {pos},
                          !.s.players[owner].sanctifiedThisTurn = @ + 1,
                          !.s.players[owner].divinity = @ - action.cost.divinity],
                TRUE, action.cost)

\* executeSummonUnit: no unit is created
executeSummonUnit(e, action) ==
    IF e.s.currentPlayer \notin DOMAIN e.s.players \/ action.targetTile = NoTile
    THEN Result(e, FALSE, action.cost)
    ELSE Result([e EXCEPT !.s.players[e.s.currentPlayer].divinity = @ - action.cost.divinity],
                TRUE, action.cost)

\* executeAbility
executeAbility(e, action) ==
    Result(e, e.s.currentPlayer \in DOMAIN e.s.players /\ action.abilityId # NoValue,
           action.cost)

\* executeMiracle: player.miracles is always empty, find() returns undefined
executeMiracle(e, action) == Result(e, FALSE, action.cost)

\* startTurn after the event and spread rolls: fog, counters, unit refresh
\* and, for an AI player, the setTimeout that captures the player object
finishStartTurn(e, owner) ==
    LET e1 == [e EXCEPT !.s = updateVisibility(e.s)]
        e2 == [e1 EXCEPT !.s.players[owner].capturedThisTurn = 0,
                         !.s.players[owner].sanctifiedThisTurn = 0]
        e3 == mapListUnits(e2, owner,
                  LAMBDA u : [u EXCEPT !.movePoints = u.maxMovePoints,
                                       !.turnsAlive = @ + 1])
    IN IF e3.s.players[owner].isAI
       THEN [e3 EXCEPT !.timers = Append(@, [owner |-> owner, gen |-> e.gen])]
       ELSE e3

\* startTurn with the spread pass run for every player
startTurnSpreadAlways(e) ==
    LET e0 == [e EXCEPT !.s.turn = @ + 1, !.spreadCalls = 0]
        owner == e.s.currentPlayer
    IN
    IF owner \notin DOMAIN e.s.players THEN {e0}
    ELSE LET e1 == turnSystemStartTurn(e0, owner)
             afterEvents == processEvents(e1.s)
         IN {finishStartTurn([e1 EXCEPT !.s = s3, !.spreadCalls = @ + 1], owner) :
                s3 \in UNION {spreadShadow(s2) : s2 \in afterEvents}}

\* startTurn: the heaps it can leave, one per outcome of the random draws of
\* processEvents and spreadShadow (updateResources changes nothing);
\* spreadCalls records how many times this call ran shadowSystem.spreadShadow
startTurn(e) ==
    LET e0 == [e EXCEPT !.s.turn = @ + 1, !.spreadCalls = 0]
        owner == e.s.currentPlayer
    IN
    IF owner \notin DOMAIN e.s.players THEN {e0}
    ELSE LET e1 == turnSystemStartTurn(e0, owner)
             afterEvents == processEvents(e1.s)
         IN IF owner = "player"
            THEN {finishStartTurn([e1 EXCEPT !.s = s3, !.spreadCalls = @ + 1], owner) :
                     s3 \in UNION {spreadShadow(s2) : s2 \in afterEvents}}
            ELSE {finishStartTurn([e1 EXCEPT !.s = s3], owner) : s3 \in afterEvents}

\* Math.floor(player.divinity / 2)
halfDivinity(divinity) == divinity \div 2

\* endTurn that never wraps: after the last key the current player stays
endTurnNoWrap(e) ==
    LET owner == e.s.currentPlayer IN
    IF owner \notin DOMAIN e.s.players THEN {Result(e, FALSE, NoCost)}
    ELSE LET e1 == [e EXCEPT
                      !.s.players[owner].aegis = halfDivinity(e.s.players[owner].divinity),
                      !.s.players[owner].divinity = 0]
             e2 == turnSystemEndTurn(e1, owner)
             players == PlayerKeys(e2.s)
             currentIndex == CHOOSE i \in DOMAIN players : players[i] = owner
             nextIndex == Min(currentIndex + 1, Len(players))
             e3 == [e2 EXCEPT !.s.currentPlayer = players[nextIndex]]
         IN {Result(e4, TRUE, NoCost) : e4 \in startTurn(e3)}

\* endTurn (encircleRule is false): the results it can return
endTurn(e) ==
    LET owner == e.s.currentPlayer IN
    IF owner \notin DOMAIN e.s.players THEN {Result(e, FALSE, NoCost)}
    ELSE LET e1 == [e EXCEPT
                      !.s.players[owner].aegis = halfDivinity(e.s.players[owner].divinity),
                      !.s.players[owner].divinity = 0]
             e2 == turnSystemEndTurn(e1, owner)
             players == PlayerKeys(e2.s)
             currentIndex == CHOOSE i \in DOMAIN players : players[i] = owner
             nextIndex == (currentIndex % Len(players)) + 1
             e3 == [e2 EXCEPT !.s.currentPlayer = players[nextIndex]]
         IN {Result(e4, TRUE, NoCost) : e4 \in startTurn(e3)}

\* the entry executeAction pushes on actionHistory: the action object with its
\* success flag and the cost field the handler left on it
historyEntry(action, success, cost) ==
    [playerId |-> action.playerId, success |-> success, cost |-> cost]

\* the switch of executeAction
dispatch(e, action) ==
    CASE action.type \in {"move", "explore"} -> {executeMove(e, action)}
      [] action.type = "capture" -> {executeCapture(e, action)}
      [] action.type = "manage_fortify" -> {executeFortify(e, action)}
      [] action.type = "manage_purify" -> {executePurify(e, action)}
      [] action.type = "manage_build_shrine" -> {executeBuildShrine(e, action)}
      [] action.type = "sanctify" -> {executeSanctify(e, action)}
      [] action.type = "summon_unit" -> {executeSummonUnit(e, action)}
      [] action.type = "use_ability" -> {executeAbility(e, action)}
      [] action.type = "use_miracle" -> {executeMiracle(e, action)}
      [] action.type = "end_turn" ->
            {Result(r.e, r.ok, action.cost) : r \in endTurn(e)}
      [] OTHER -> {Result(e, FALSE, action.cost)}

\* if (victory): what checkVictory returns is an object on every path, and
\* an object is truthy whatever its fields hold
victoryTruthy(victory) == DOMAIN victory = {"s", "winner", "condition"}

\* executeAction after a successful validation, for one result of the switch
afterDispatch(r, action) ==
    LET e1 == [r.e EXCEPT !.actionHistory =
                   Append(@, historyEntry(action, r.ok, r.cost))]
        victory == checkVictory(updateVisibility(e1.s))
        s2 == IF victoryTruthy(victory)
              THEN [victory.s EXCEPT !.phase = "victory"]
              ELSE victory.s
    IN Result([e1 EXCEPT !.s = s2], r.ok, r.cost)

\* executeAction: the results it can return
executeAction(e, action) ==
    IF ~validateAction(e, action)
    THEN {Result([e EXCEPT !.actionHistory =
                      Append(@, historyEntry(action, FALSE, action.cost))],
                 FALSE, action.cost)}
    ELSE {afterDispatch(r, action) : r \in dispatch(e, action)}

\* ---------------------------------------------------------- AIController

\* A candidate is the action's type, target tile and unit.  The generators
\* push capture, sanctify, fortify, explore and summon candidates in that
\* order; rank is a candidate's place in that order.
candidate(type, targetTile, unitId) ==
    [type |-> type, targetTile |-> targetTile, unitId |-> unitId]

rank(c) ==
    CASE c.type = "capture" -> 1
      [] c.type = "sanctify" -> 2
      [] c.type = "manage_fortify" -> 3
      [] c.type = "explore" -> 4
      [] OTHER -> 5

\* generateCaptureActions
generateCaptureActions(s, player) ==
    {candidate("capture", n, NoUnit) :
        n \in {m \in DOMAIN s.tiles :
                 /\ \E k \in player.ownedTiles \cap DOMAIN s.tiles :
                        m \in Range(getNeighbors(k, s.mapSize))
                 /\ s.tiles[m].owner # player.owner
                 /\ ~s.tiles[m].impassable
                 /\ player.divinity >= 2}}

\* generateSanctifyActions
generateSanctifyActions(s, player) ==
    {candidate("sanctify", k, NoUnit) :
        k \in {t \in player.ownedTiles \cap DOMAIN s.tiles :
                 ~s.tiles[t].sanctified /\ player.divinity >= 4}}

\* generateFortifyActions
generateFortifyActions(s, player) ==
    {candidate("manage_fortify", k, NoUnit) :
        k \in {t \in player.ownedTiles \cap DOMAIN s.tiles :
                 s.tiles[t].stability < 5 /\ player.divinity >= 3}}

\* generateExploreActions
generateExploreActions(s, player) ==
    UNION {
        LET unit == player.units[i] IN
        IF unit.movePoints > 0
        THEN {candidate("explore", k, unit.id) :
                k \in {t \in getTilesInRadius(unit.position, unit.movePoints, s.mapSize) :
                         t \in DOMAIN s.tiles /\ s.tiles[t].visibility = Hidden}}
        ELSE {}
        : i \in DOMAIN player.units }

\* generateSummonActions: the spawn tile is the first key of ownedTiles; the
\* order of that set is not kept here, so any owned key may be the first
generateSummonActions(s, player) ==
    IF player.divinity >= 2 /\ Len(player.units) < 5
    THEN {candidate("summon_unit", IF k \in DOMAIN s.tiles THEN k ELSE NoTile, NoUnit) :
            k \in player.ownedTiles}
    ELSE {}

\* the candidates of selectBestAction
candidates(s, player) ==
    generateCaptureActions(s, player) \cup generateSanctifyActions(s, player)
    \cup generateFortifyActions(s, player) \cup generateExploreActions(s, player)
    \cup generateSummonActions(s, player)

hasTarget(s, c) == c.targetTile # NoTile /\ c.targetTile \in DOMAIN s.tiles

\* estimateVictoryProgressDelta
estimateVictoryProgressDelta(s, c) ==
    CASE c.type = "capture" -> 5
      [] c.type = "sanctify" ->
            8 + (IF hasTarget(s, c) /\ isHolySite(s.tiles[c.targetTile].type) THEN 10 ELSE 0)
      [] OTHER -> 0

\* estimateEconomyGain, in halves
estimateEconomyGain2(s, c) ==
    (IF c.type = "capture" /\ hasTarget(s, c)
     THEN 4 * s.tiles[c.targetTile].divinityYield + 3 * s.tiles[c.targetTile].faithYield
     ELSE 0)
    + (IF c.type = "sanctify" THEN 2 ELSE 0)

\* estimateDefenseGain
estimateDefenseGain(c) ==
    (IF c.type = "manage_fortify" THEN 5 ELSE 0) + (IF c.type = "sanctify" THEN 3 ELSE 0)

\* assessRisk
assessRisk(s, c) ==
    IF hasTarget(s, c)
    THEN LET ns == getNeighbors(c.targetTile, s.mapSize)
         IN 0 - 2 * Cardinality({i \in DOMAIN ns :
                        ns[i] \in DOMAIN s.tiles /\ s.tiles[ns[i]].corruption > 0})
    ELSE 0

\* assessDomainSynergy
assessDomainSynergy(s, player, c) ==
    IF c.type = "capture" /\ hasTarget(s, c)
    THEN LET type == s.tiles[c.targetTile].type IN
         (IF player.domain = "fire" /\ type \in {"desert", "hills"} THEN 3 ELSE 0)
         + (IF player.domain = "earth" /\ type \in {"forest", "hills"} THEN 3 ELSE 0)
         + (IF player.domain = "water" /\ type \in {"swamp", "water"} THEN 3 ELSE 0)
    ELSE 0

\* (Math.random() - 0.5) * 0.1 in 1/2000ths: a value of [-100, 100)
JitterDraws == {-100, -50, 0, 99}

\* calculateUtility in 1/2000ths: weights 0.3, 0.25, 0.2, 0.15, 0.1
calculateUtility(s, player, c, jitter) ==
    600 * estimateVictoryProgressDelta(s, c) + 250 * estimateEconomyGain2(s, c)
    + 400 * estimateDefenseGain(c) + 300 * assessRisk(s, c)
    + 200 * assessDomainSynergy(s, player, c) + jitter

\* applyPersonalityWeights with the aggressive factor put on fortify
personalityWeightFortify(player, c) ==
    CASE player.aiPersonality = "aggressive" /\ c.type = "manage_fortify" -> 15
      [] player.aiPersonality = "defensive"
           /\ c.type \in {"manage_fortify", "sanctify"} -> 15
      [] player.aiPersonality = "opportunist"
           /\ c.type \in {"capture", "sanctify"} -> 13
      [] OTHER -> 10

\* applyPersonalityWeights: the factor in tenths
personalityWeight(player, c) ==
    CASE player.aiPersonality = "aggressive" /\ c.type = "capture" -> 15
      [] player.aiPersonality = "defensive"
           /\ c.type \in {"manage_fortify", "sanctify"} -> 15
      [] player.aiPersonality = "opportunist"
           /\ c.type \in {"capture", "sanctify"} -> 13
      [] OTHER -> 10

score(s, player, c, jitter) ==
    personalityWeight(player, c) * calculateUtility(s, player, c, jitter)

\* selectBestAction: the candidates that can come first after the sort for
\* some draws of the jitters (one independent draw per candidate; the sort is
\* stable, so among equal scores the one generated first stays first)
selectBestAction(s, player) ==
    LET cs == candidates(s, player) IN
    {c \in cs : \E jc \in JitterDraws : \A d \in cs \ {c} : \E jd \in JitterDraws :
        \/ score(s, player, c, jc) > score(s, player, d, jd)
        \/ score(s, player, c, jc) = score(s, player, d, jd) /\ rank(c) <= rank(d)}

\* simulateAction: baseCosts[action.type] || 0
baseCost(type) ==
    CASE type = "capture" -> 4
      [] type = "sanctify" -> 6
      [] type = "manage_fortify" -> 3
      [] type = "summon_unit" -> 2
      [] OTHER -> 0

\* simulateAction without Math.max
simulateActionUnclamped(player, c) ==
    [player EXCEPT !.divinity = player.divinity - baseCost(c.type)]

simulateAction(player, c) ==
    [player EXCEPT !.divinity = Max(0, player.divinity - baseCost(c.type))]

\* --------------------------------------- initializeGame, export, import

\* the player objects of the current generation that pending callbacks hold,
\* put aside when this.state is replaced
retire(e) ==
    LET held == {e.timers[i].owner : i \in {j \in DOMAIN e.timers : e.timers[j].gen = e.gen}}
    IN IF held = {} THEN e.orphans
       ELSE (e.gen :> [o \in held |-> e.s.players[o]]) @@ e.orphans

\* generations no pending callback refers to are dropped
prune(e) ==
    LET live == {e.timers[i].gen : i \in DOMAIN e.timers}
    IN [e EXCEPT !.orphans = [g \in DOMAIN e.orphans \cap live |-> e.orphans[g]]]

\* initializeGame up to its await: a fresh state with the options applied.
\* options.layout stands for mapSize and for what generateMap will draw,
\* options.players for the players array.
initializeGameBegin(e, options) ==
    [e EXCEPT !.s = [createEmptyState(e.gen + 1) EXCEPT !.mapSize = options.layout.size],
              !.shared = {},
              !.gen = e.gen + 1,
              !.orphans = retire(e)]

RECURSIVE setPlayers(_, _, _)
setPlayers(s, players, index) ==
    IF index > Len(players) THEN s
    ELSE LET player == newPlayer(s.id, index, players[index])
         IN setPlayers([s EXCEPT !.players = (player.owner :> player) @@ @],
                       players, index + 1)

\* initializeGame after its await: the heaps it can leave
initializeGameResume(e, options) ==
    LET s1 == [e.s EXCEPT !.tiles = generateMap(options.layout) @@ @]
        e2 == placeStartingPositions([e EXCEPT !.s = setPlayers(s1, options.players, 1)])
        e3 == [e2 EXCEPT !.s = [initializeShadow(e2.s) EXCEPT !.phase = "playing"]]
    IN startTurn(e3)

\* exportState: what the JSON text holds.  Maps and sets are written out as
\* entry lists; a unit is written once under its owner's list and once under
\* the unit table.
exportState(e) == [state |-> e.s, actionHistory |-> e.actionHistory]

\* importState: every object of the parsed state is new, so no list entry is
\* the table's object any more; pending callbacks are left as they are
importState(e, data) ==
    [e EXCEPT !.s = data.state,
              !.actionHistory = data.actionHistory,
              !.shared = {},
              !.gen = e.gen + 1,
              !.orphans = retire(e)]

\* ------------------------------------------------------------- the inputs

PlayerData(domain, aiPersonality) == [domain |-> domain, aiPersonality |-> aiPersonality]

PlayerOptions ==
    { <<PlayerData("death", "balanced"), PlayerData("order", "aggressive")>> }

GameOptions == [layout : MapLayouts, players : PlayerOptions]

\* target tiles of the submitted actions: the first start tile, the corner
\* of the first region that holds the seed of the main map and is the
\* second start tile of the small map, the sacred well, a mountain and the
\* second start tile of the main map
OwnCentre == <<5, 5>>
Corner == <<4, 4>>
Well == <<7, 4>>
Mountain == <<4, 5>>
FarCentre == <<9, 1>>

Cost(divinity, faith, shadowEnergy) ==
    [divinity |-> divinity, faith |-> faith, shadowEnergy |-> shadowEnergy]

Action(type, playerId, targetTile, unitId, cost) ==
    [type |-> type, playerId |-> playerId, targetTile |-> targetTile, unitId |-> unitId,
     abilityId |-> IF type = "use_ability" THEN "ability" ELSE NoValue,
     miracleId |-> IF type = "use_miracle" THEN "miracle" ELSE NoValue,
     cost |-> cost]

\* the id of the current player, or of nobody when there is none
currentId(s) ==
    IF s.currentPlayer \in DOMAIN s.players THEN s.players[s.currentPlayer].id
    ELSE <<s.id, "nobody">>

\* the actions submitted to executeAction in state s
ActionInputs(s) ==
    LET me == currentId(s)
        others == {s.players[o].id : o \in DOMAIN s.players} \ {me}
        notMe == IF others = {} THEN {<<s.id, "nobody">>} ELSE others
    IN {Action("capture", me, t, NoUnit, NoCost) :
            t \in {OwnCentre, Corner, Well, Mountain, NoTile}}
       \cup {Action("move", me, t, u, NoCost) :
                t \in {Corner, Mountain}, u \in DOMAIN s.units}
       \cup {Action("manage_fortify", me, OwnCentre, NoUnit, Cost(3, 0, 0)),
             Action("manage_purify", me, Corner, NoUnit, Cost(3, 0, 0)),
             Action("manage_purify", me, OwnCentre, NoUnit, Cost(3, 0, 0)),
             Action("manage_build_shrine", me, Corner, NoUnit, Cost(5, 0, 0)),
             Action("manage_build_shrine", me, FarCentre, NoUnit, Cost(5, 0, 0)),
             Action("sanctify", me, Corner, NoUnit, Cost(6, 0, 0)),
             Action("sanctify", me, OwnCentre, NoUnit, Cost(6, 0, 0)),
             Action("explore", me, Corner, NoUnit, NoCost),
             Action("summon_unit", me, OwnCentre, NoUnit, Cost(2, 0, 0)),
             Action("use_ability", me, NoTile, NoUnit, Cost(0, 1, 0)),
             Action("use_ability", me, NoTile, NoUnit, Cost(0, 0, 1)),
             Action("use_miracle", me, NoTile, NoUnit, NoCost),
             Action("manage_repair", me, OwnCentre, NoUnit, NoCost),
             Action("end_turn", me, NoTile, NoUnit, NoCost),
             Action("capture", me, Well, NoUnit, Cost(25, 0, 0))}
       \cup {Action("end_turn", id, NoTile, NoUnit, NoCost) : id \in notMe}

\* ------------------------------------------------------ the state machine

\* state, shared, timers, actionHistory, gen and orphans are the heap of one
\* GameEngine; spreadCalls counts the shadowSystem.spreadShadow calls of the
\* engine's last startTurn; aiRun holds the AI callback that is running (its player object
\* and the type of the action it chose last), if any; pendingInit holds the
\* initializeGame call suspended at its await, if any; saved holds the texts
\* exportState returned; returned holds what the executeAction call of the
\* last step returned, and is empty after any other step; calls counts the
\* executeAction calls made so far.
VARIABLES state, shared, timers, actionHistory, gen, orphans, spreadCalls,
          aiRun, pendingInit, saved, returned, calls

vars == <<state, shared, timers, actionHistory, gen, orphans, spreadCalls,
          aiRun, pendingInit, saved, returned, calls>>

Engine ==
    [s |-> state, shared |-> shared, timers |-> timers,
     actionHistory |-> actionHistory, gen |-> gen, orphans |-> orphans,
     spreadCalls |-> spreadCalls]

SetEngine(e) ==
    /\ state' = e.s
    /\ shared' = e.shared
    /\ timers' = e.timers
    /\ actionHistory' = e.actionHistory
    /\ gen' = e.gen
    /\ orphans' = e.orphans
    /\ spreadCalls' = e.spreadCalls

\* the constructor: an empty state, an empty history
Init ==
    /\ state = createEmptyState(0)
    /\ shared = {}
    /\ timers = << >>
    /\ actionHistory = << >>
    /\ gen = 0
    /\ orphans = EmptyFcn
    /\ spreadCalls = 0
    /\ aiRun = << >>
    /\ pendingInit = << >>
    /\ saved = {}
    /\ returned = << >>
    /\ calls = 0

\* a call of initializeGame, up to the await
InitializeGame ==
    /\ aiRun = << >>
    /\ pendingInit = << >>
    /\ gen < MaxGames
    /\ \E options \in GameOptions :
          /\ SetEngine(initializeGameBegin(Engine, options))
          /\ pendingInit' = <<options>>
    /\ returned' = << >>
    /\ UNCHANGED <<aiRun, saved, calls>>

\* the continuation of initializeGame; it is a microtask, so it runs before
\* any timer callback
InitializeGameResume ==
    /\ aiRun = << >>
    /\ pendingInit # << >>
    /\ \E e \in initializeGameResume(Engine, pendingInit[1]) : SetEngine(e)
    /\ pendingInit' = << >>
    /\ returned' = << >>
    /\ UNCHANGED <<aiRun, saved, calls>>

\* a call of executeAction
ExecuteAction ==
    /\ aiRun = << >>
    /\ calls < MaxCalls
    /\ calls' = calls + 1
    /\ \E action \in ActionInputs(state) : \E r \in executeAction(Engine, action) :
          /\ r.e.s.turn <= MaxTurn
          /\ SetEngine(r.e)
          /\ returned' = <<r.ok>>
    /\ UNCHANGED <<aiRun, pendingInit, saved>>

\* a call of exportState; the caller keeps the text
ExportState ==
    /\ aiRun = << >>
    /\ Cardinality(saved) < MaxSaved
    /\ exportState(Engine) \notin saved
    /\ saved' = saved \cup {exportState(Engine)}
    /\ returned' = << >>
    /\ UNCHANGED <<state, shared, timers, actionHistory, gen, orphans, spreadCalls, aiRun, pendingInit, calls>>

\* a call of importState with a text exportState returned
ImportState ==
    /\ aiRun = << >>
    /\ pendingInit = << >>
    /\ gen < MaxGames + MaxImports
    /\ \E data \in saved : SetEngine(importState(Engine, data))
    /\ returned' = << >>
    /\ UNCHANGED <<aiRun, pendingInit, saved, calls>>

\* the player object an AI callback holds
heldPlayer(e, run) ==
    IF run.gen = e.gen THEN e.s.players[run.owner] ELSE e.orphans[run.gen][run.owner]

setHeldPlayer(e, run, player) ==
    IF run.gen = e.gen THEN [e EXCEPT !.s.players[run.owner] = player]
    ELSE [e EXCEPT !.orphans[run.gen][run.owner] = player]

\* the oldest timer fires: its callback enters aiController.executeTurn
TimerFire ==
    /\ aiRun = << >>
    /\ pendingInit = << >>
    /\ timers # << >>
    /\ state.turn < MaxTurn
    /\ aiRun' = <<[owner |-> Head(timers).owner, gen |-> Head(timers).gen, last |-> NoValue]>>
    /\ timers' = Tail(timers)
    /\ returned' = << >>
    /\ UNCHANGED <<state, shared, actionHistory, gen, orphans, spreadCalls, pendingInit, saved, calls>>

\* one pass of the while loop of executeTurn
AIStep ==
    /\ aiRun # << >>
    /\ heldPlayer(Engine, aiRun[1]).divinity > 0
    /\ \E bestAction \in selectBestAction(state, heldPlayer(Engine, aiRun[1])) :
          /\ SetEngine(setHeldPlayer(Engine, aiRun[1],
                                     simulateAction(heldPlayer(Engine, aiRun[1]), bestAction)))
          /\ aiRun' = <<[aiRun[1] EXCEPT !.last = bestAction.type]>>
    /\ returned' = << >>
    /\ UNCHANGED <<pendingInit, saved, calls>>

\* the loop is left and the callback calls endTurn
AIEnd ==
    /\ aiRun # << >>
    /\ \/ heldPlayer(Engine, aiRun[1]).divinity <= 0
       \/ candidates(state, heldPlayer(Engine, aiRun[1])) = {}
    /\ \E r \in endTurn(Engine) : SetEngine(prune(r.e))
    /\ aiRun' = << >>
    /\ returned' = << >>
    /\ UNCHANGED <<pendingInit, saved, calls>>

\* One engine from its construction on: matches are set up and played by
\* the human caller and the AI callbacks.
Next ==
    \/ InitializeGame
    \/ InitializeGameResume
    \/ ExecuteAction
    \/ TimerFire
    \/ AIStep
    \/ AIEnd

Spec == Init /\ [][Next]_vars

\* the engine as its constructor leaves it
NewEngine ==
    [s |-> createEmptyState(0), shared |-> {}, timers |-> << >>,
     actionHistory |-> << >>, gen |-> 0, orphans |-> EmptyFcn,
     spreadCalls |-> 0]

\* the engines initializeGame can leave on the main map
FreshMatches ==
    UNION {initializeGameResume(initializeGameBegin(NewEngine, options), options)
           : options \in {o \in GameOptions : o.layout = MainLayout}}

\* a fresh match whose first turn drew no event and no spread
QuietStart(e) ==
    /\ e.s.players["player"].divinity = BaseDivinity
    /\ e.s.players["player"].faith = 0
    /\ \A k \in DOMAIN e.s.tiles : e.s.tiles[k].corruption # 1
    /\ \A k \in DOMAIN e.s.tiles : e.s.tiles[k].visibility = Seen => k \in e.s.revealedTiles
    /\ Cardinality({k \in DOMAIN e.s.tiles : e.s.tiles[k].visibility = Seen}) <= 4

SaveInit ==
    /\ \E e \in {f \in FreshMatches : QuietStart(f)} :
          /\ state = e.s
          /\ shared = e.shared
          /\ timers = e.timers
          /\ actionHistory = e.actionHistory
          /\ gen = e.gen
          /\ orphans = e.orphans
          /\ spreadCalls = e.spreadCalls
    /\ aiRun = << >>
    /\ pendingInit = << >>
    /\ saved = {}
    /\ returned = << >>
    /\ calls = 0

\* A match in progress that is saved and loaded while it is played.
SaveNext ==
    \/ ExecuteAction
    \/ ExportState
    \/ ImportState
    \/ TimerFire
    \/ AIStep
    \/ AIEnd

SaveSpec == SaveInit /\ [][SaveNext]_vars


\* -------------------------------------------------------- the capture play

\* further target tiles on the main map: a tile of the second start region
\* with no neighbour in the first, the village, the ruins, a position off
\* the map
FarEdge == <<8, 2>>
Village == <<3, 5>>
Ruins == <<7, 6>>
OffMap == <<MapWidth, 0>>

CaptureTargets ==
    {OwnCentre, Corner, Well, Mountain, NoTile, FarEdge, Village, Ruins, OffMap}

\* the capture actions the current player can submit
CaptureInputs(s) ==
    {Action("capture", currentId(s), t, NoUnit, NoCost) : t \in CaptureTargets}

\* a call of executeAction by a caller who captures, sanctifies the corner
\* and ends turns
CaptureCall ==
    /\ aiRun = << >>
    /\ calls < MaxCaptureCalls
    /\ calls' = calls + 1
    /\ \E action \in CaptureInputs(state)
                     \cup {Action("sanctify", currentId(state), Corner, NoUnit, Cost(6, 0, 0)),
                           Action("end_turn", currentId(state), NoTile, NoUnit, NoCost)} :
          \E r \in executeAction(Engine, action) :
             /\ r.e.s.turn <= MaxTurn
             /\ SetEngine(r.e)
             /\ returned' = <<r.ok>>
    /\ UNCHANGED <<aiRun, pendingInit, saved>>

\* A match on the main map in which the caller captures.
CaptureNext ==
    \/ CaptureCall
    \/ TimerFire
    \/ AIStep
    \/ AIEnd

CaptureSpec == SaveInit /\ [][CaptureNext]_vars

\* ------------------------------------------------------- the rounds play

\* the players arrays of initializeGame: one to four players
RoundPlayers ==
    LET all == <<PlayerData("death", "balanced"), PlayerData("order", "aggressive"),
                 PlayerData("life", "defensive"), PlayerData("fire", "opportunist")>>
    IN {SubSeq(all, 1, n) : n \in 1..Len(PlayerOwners)}

RoundOptions == [layout : {MainLayout}, players : RoundPlayers]

\* a call of initializeGame on the main map, up to the await
RoundInitializeGame ==
    /\ aiRun = << >>
    /\ pendingInit = << >>
    /\ gen < MaxGames
    /\ \E options \in RoundOptions :
          /\ SetEngine(initializeGameBegin(Engine, options))
          /\ pendingInit' = <<options>>
    /\ returned' = << >>
    /\ UNCHANGED <<aiRun, saved, calls>>

\* a call of executeAction with an end_turn action of the current player
RoundEndTurn ==
    /\ aiRun = << >>
    /\ pendingInit = << >>
    /\ state.turn >= 1
    /\ state.turn < Len(PlayerKeys(state)) + MaxExtraTurns
    /\ calls' = calls + 1
    /\ \E r \in executeAction(Engine,
                   Action("end_turn", currentId(state), NoTile, NoUnit, NoCost)) :
          /\ SetEngine(r.e)
          /\ returned' = <<r.ok>>
    /\ UNCHANGED <<aiRun, pendingInit, saved>>

\* Matches of one to four players in which turns are ended, by the caller
\* or by the AI callbacks.
RoundNext ==
    \/ RoundInitializeGame
    \/ InitializeGameResume
    \/ RoundEndTurn
    \/ TimerFire
    \/ AIStep
    \/ AIEnd

RoundSpec == Init /\ [][RoundNext]_vars

\* ------------------------------------------------------- the ledger play

\* ResourceSystem.grantDivinity
grantDivinity(player, amount) ==
    [player EXCEPT !.divinity = Min(MaxDivinityPerTurn, player.divinity + amount)]

\* ResourceSystem.grantFaith
grantFaith(player, amount) == [player EXCEPT !.faith = player.faith + amount]

\* ResourceSystem.grantShadowEnergy
grantShadowEnergy(player, amount) ==
    [player EXCEPT !.shadowEnergy = Min(MaxShadowEnergy, player.shadowEnergy + amount)]

GrantAmounts == 0..MaxGrant

\* a call of one of the grant methods of the ResourceSystem on a player
\* object of the match
LedgerGrant ==
    /\ aiRun = << >>
    /\ calls < MaxGrantCalls
    /\ calls' = calls + 1
    /\ \E owner \in DOMAIN state.players : \E amount \in GrantAmounts :
          \E player \in {grantDivinity(state.players[owner], amount),
                         grantFaith(state.players[owner], amount),
                         grantShadowEnergy(state.players[owner], amount)} :
             SetEngine([Engine EXCEPT !.s.players[owner] = player])
    /\ returned' = << >>
    /\ UNCHANGED <<aiRun, pendingInit, saved>>

\* A match on the main map whose players are granted resources.
LedgerSpec == SaveInit /\ [][LedgerGrant]_vars

\* ------------------------------------------------------- the combat play

\* CombatSystem.canAttack
canAttack(attacker, defender) ==
    /\ attacker.owner # defender.owner
    /\ Manhattan(attacker.position, defender.position) = 1

\* destroyUnit that forgets the owner's unit list
destroyUnitTableOnly(e, unit) ==
    [e EXCEPT !.s.units = [id \in DOMAIN e.s.units \ {unit.id} |-> e.s.units[id]],
              !.shared = @ \ {unit.id}]

\* CombatSystem.destroyUnit
destroyUnit(e, unit) ==
    LET e1 == [e EXCEPT !.s.units = [id \in DOMAIN e.s.units \ {unit.id} |-> e.s.units[id]],
                        !.shared = @ \ {unit.id}]
    IN IF unit.owner \in DOMAIN e1.s.players
       THEN [e1 EXCEPT !.s.players[unit.owner].units =
                          SelectSeq(@, LAMBDA u : u.id # unit.id)]
       ELSE e1

\* CombatSystem.executeAttack
executeAttack(e, attackerId, defenderId) ==
    IF attackerId \notin DOMAIN e.s.units \/ defenderId \notin DOMAIN e.s.units
    THEN Result(e, FALSE, NoCost)
    ELSE IF ~canAttack(e.s.units[attackerId], e.s.units[defenderId])
    THEN Result(e, FALSE, NoCost)
    ELSE Result(destroyUnit(e, e.s.units[defenderId]), TRUE, NoCost)

\* a call of executeAction by a caller who sanctifies the corner, ends turns
\* and captures the tile of the second start region that lies next to the
\* second player's explorer
CombatCall ==
    /\ aiRun = << >>
    /\ calls < MaxCaptureCalls
    /\ calls' = calls + 1
    /\ \E action \in {Action("sanctify", currentId(state), Corner, NoUnit, Cost(6, 0, 0)),
                       Action("end_turn", currentId(state), NoTile, NoUnit, NoCost),
                       Action("capture", currentId(state), <<8, 1>>, NoUnit, NoCost)} :
          \E r \in executeAction(Engine, action) :
             /\ r.e.s.turn <= MaxTurn
             /\ SetEngine(r.e)
             /\ returned' = <<r.ok>>
    /\ UNCHANGED <<aiRun, pendingInit, saved>>

\* a call of executeAttack with the ids of two units of the match, or with
\* an id no unit has
Attack ==
    /\ aiRun = << >>
    /\ \E attackerId, defenderId \in DOMAIN state.units \cup {newUnitId(state)} :
          LET r == executeAttack(Engine, attackerId, defenderId) IN
          /\ SetEngine(r.e)
          /\ returned' = <<r.ok>>
    /\ UNCHANGED <<aiRun, pendingInit, saved, calls>>

\* A match on the main map in which units are attacked.
CombatNext ==
    \/ CombatCall
    \/ Attack
    \/ TimerFire
    \/ AIStep
    \/ AIEnd

CombatSpec == SaveInit /\ [][CombatNext]_vars

\* ------------------------------------------------------ the victory play

\* the tile keys of a strip of VictoryTiles cells
VictoryKeys == {<<x, 0>> : x \in 0..(VictoryTiles - 1)}

\* The game states the evaluation is given: a match of one player in its
\* first turn on a strip of plains whose last cell may be a mountain, every
\* tile neutral, the player's or Shadow's, with nothing revealed, the first
\* four cells revealed or all cells revealed, and with or without the
\* Conquest condition.
VictoryInputs ==
    {[createEmptyState(1) EXCEPT
         !.turn = 1,
         !.phase = "playing",
         !.mapSize = [width |-> VictoryTiles, height |-> 1],
         !.tiles = [k \in VictoryKeys |->
                       [generateTile(IF k = <<VictoryTiles - 1, 0>> THEN last ELSE "plains")
                           EXCEPT !.owner = owners[k]]],
         !.players = "player" :>
             [newPlayer(1, 1, PlayerData("death", "balanced"))
                 EXCEPT !.ownedTiles = {k \in VictoryKeys : owners[k] = "player"}],
         !.revealedTiles = revealed,
         !.victoryConditions = conditions]
     : owners \in [VictoryKeys -> {Neutral, "player", Shadow}],
       last \in {"plains", "mountain"},
       revealed \in {{}, {k \in VictoryKeys : k[1] < 4}, VictoryKeys},
       conditions \in {DefaultVictoryConditions, <<"sanctifier", "shadow_accord">>}}

VictoryInit ==
    /\ state \in VictoryInputs
    /\ shared = {}
    /\ timers = << >>
    /\ actionHistory = << >>
    /\ gen = 1
    /\ orphans = EmptyFcn
    /\ spreadCalls = 0
    /\ aiRun = << >>
    /\ pendingInit = << >>
    /\ saved = {}
    /\ returned = << >>
    /\ calls = 0

\* a call of executeAction with a use_miracle action of the player: the
\* handler changes nothing, then the fog is updated and the victory
\* conditions are checked
VictoryCall ==
    /\ calls = 0
    /\ calls' = calls + 1
    /\ \E r \in executeAction(Engine,
                   Action("use_miracle", currentId(state), NoTile, NoUnit, NoCost)) :
          /\ SetEngine(r.e)
          /\ returned' = <<r.ok>>
    /\ UNCHANGED <<aiRun, pendingInit, saved>>

\* The evaluation of given game states.
VictorySpec == VictoryInit /\ [][VictoryCall]_vars

\* ----------------------------------------------------------------- claims

lastEntry == actionHistory[Len(actionHistory)]

\* the step is a call of executeAction
isCall == returned' # << >>

\* C1: after initializeGame and after every action, turn start, turn end and
\* spread pass, for every player p and tile t, t.owner = p.owner exactly when
\* t's key is in p.ownedTiles; in particular no key is in two players' sets.
OwnedTilesMatchOwners ==
    \A o \in DOMAIN state.players : \A k \in DOMAIN state.tiles :
        (state.tiles[k].owner = state.players[o].owner)
            <=> (k \in state.players[o].ownedTiles)

\* C2: a call of executeAction made while the phase is Playing sets the phase
\* to Victory only if the evaluator reports a winner (a player meeting an
\* enabled condition, or Shadow on defeat); otherwise the phase stays Playing.
VictoryOnlyWhenReported ==
    [][(isCall /\ state.phase = "playing")
         => /\ state'.phase \in {"playing", "victory"}
            /\ (state'.phase = "victory") => (checkVictory(state').winner # NoWinner)
            /\ (checkVictory(state').winner = NoWinner) => (state'.phase = "playing")]_vars

\* what C3 says is frozen once the match is over
frozenView(s) ==
    [currentPlayer |-> s.currentPlayer, turn |-> s.turn, tiles |-> s.tiles,
     units |-> s.units,
     resources |-> [o \in DOMAIN s.players |->
                      [divinity |-> s.players[o].divinity, faith |-> s.players[o].faith,
                       shadowEnergy |-> s.players[o].shadowEnergy,
                       aegis |-> s.players[o].aegis]]]

\* C3: once the phase is Victory or Defeat, every call of executeAction
\* returns false, and no call and no AI callback changes the current player,
\* the turn counter, the tiles, the units or the players' resources.
TerminalPhaseIsFinal ==
    [][(state.phase \in {"victory", "defeat"} /\ gen' = gen)
         => /\ returned' # <<TRUE>>
            /\ frozenView(state') = frozenView(state)]_vars

\* the game state C4 lists
gameView(s) ==
    [phase |-> s.phase, turn |-> s.turn, currentPlayer |-> s.currentPlayer,
     tiles |-> [k \in DOMAIN s.tiles |->
                  [owner |-> s.tiles[k].owner, stability |-> s.tiles[k].stability,
                   corruption |-> s.tiles[k].corruption,
                   sanctified |-> s.tiles[k].sanctified]],
     players |-> [o \in DOMAIN s.players |->
                    [divinity |-> s.players[o].divinity, faith |-> s.players[o].faith,
                     shadowEnergy |-> s.players[o].shadowEnergy,
                     aegis |-> s.players[o].aegis,
                     ownedTiles |-> s.players[o].ownedTiles,
                     sanctifiedTiles |-> s.players[o].sanctifiedTiles,
                     units |-> s.players[o].units]],
     units |-> s.units]

\* C4: a call of executeAction that returns false leaves the phase, the turn,
\* the current player, every tile's owner, stability, corruption and
\* sanctified flag, every player's resources and tile sets and every unit as
\* they were.
FailedActionChangesNothing ==
    [][(returned' = <<FALSE>>) => (gameView(state') = gameView(state))]_vars

\* an action with this history entry is one validateAction has to reject in
\* state s: not the current player's id, or a declared cost above what the
\* current player holds
mustReject(s, entry) ==
    \/ s.currentPlayer \notin DOMAIN s.players
    \/ entry.playerId # s.players[s.currentPlayer].id
    \/ entry.cost.divinity > s.players[s.currentPlayer].divinity
    \/ entry.cost.faith > s.players[s.currentPlayer].faith
    \/ entry.cost.shadowEnergy > s.players[s.currentPlayer].shadowEnergy

\* C5: every call of executeAction appends exactly one entry to the history;
\* a call whose action names another player, or declares a cost above the
\* current player's divinity, faith or shadow energy, returns false, appends
\* an entry with success = FALSE and changes nothing else.
InvalidActionRejected ==
    [][isCall
         => /\ Len(actionHistory') = Len(actionHistory) + 1
            /\ SubSeq(actionHistory', 1, Len(actionHistory)) = actionHistory
            /\ lastEntry'.success = returned'[1]
            /\ mustReject(state, lastEntry')
                 => /\ returned' = <<FALSE>>
                    /\ state' = state
                    /\ shared' = shared
                    /\ timers' = timers]_vars

\* two rejected calls, one under another player's id, one declaring more
\* divinity than the current player holds
InvalidActionRejectedWitness ==
    /\ Len(actionHistory) = 2
    /\ returned = <<FALSE>>
    /\ state.currentPlayer \in DOMAIN state.players
    /\ actionHistory[1].playerId # state.players[state.currentPlayer].id
    /\ ~actionHistory[1].success
    /\ actionHistory[2].playerId = state.players[state.currentPlayer].id
    /\ actionHistory[2].cost.divinity > state.players[state.currentPlayer].divinity
    /\ ~actionHistory[2].success

\* C6: when the turn of a player holding d divinity ends, that player's
\* aegis is floor(d / 2) and their divinity 0 afterwards.
EndTurnConvertsHalf ==
    [][(state'.turn = state.turn + 1 /\ state.currentPlayer \in DOMAIN state.players
        /\ state'.currentPlayer # state.currentPlayer)
         => LET o == state.currentPlayer IN
            /\ state'.players[o].aegis = state.players[o].divinity \div 2
            /\ state'.players[o].divinity = 0]_vars

\* C7: every action the AI chooses during its callback goes through
\* executeAction: the history grows by an entry of that player.
AIActionsAreExecuted ==
    [][(aiRun # << >> /\ aiRun' # << >> /\ aiRun'[1].last # NoValue)
         => /\ Len(actionHistory') = Len(actionHistory) + 1
            /\ lastEntry'.playerId = heldPlayer(Engine, aiRun[1]).id]_vars

\* C8: an AI callback that has entered executeTurn leaves it and ends the
\* turn.  A pass of the loop reads only the state and the player object, so
\* a pass that changes neither is followed by the same pass for ever: the
\* loop terminates only if, in every state of the loop, the loop is left or
\* some action it can choose lowers the divinity it runs on.
AITurnTerminates ==
    aiRun # << >> =>
        LET player == heldPlayer(Engine, aiRun[1]) IN
        \/ player.divinity <= 0
        \/ candidates(state, player) = {}
        \/ \E bestAction \in selectBestAction(state, player) :
              simulateAction(player, bestAction).divinity < player.divinity

\* C9: a callback runs the AI engine and endTurn only while the player it was
\* scheduled for is the current player of the match it was scheduled for.
CallbackRunsForCurrentPlayer ==
    aiRun # << >> => /\ aiRun[1].gen = gen
                     /\ aiRun[1].owner = state.currentPlayer

\* C10: after importState(exportState()) a unit reached through its owner's
\* list and through the unit table is one unit, so the two never differ
\* whatever is played afterwards.
RoundTripKeepsUnitsOne ==
    \A o \in DOMAIN state.players : \A i \in DOMAIN state.players[o].units :
        LET unit == state.players[o].units[i] IN
        unit.id \in DOMAIN state.units
            => unit.id \in shared /\ state.units[unit.id] = unit

\* C11: in every reachable state a tile with corruption 2 is owned by Shadow.
CorruptTilesAreShadow ==
    \A k \in DOMAIN state.tiles :
        state.tiles[k].corruption = 2 => state.tiles[k].owner = Shadow

\* C12: in every reachable state a sanctified tile is owned by a player of
\* the player table, has a domain attunement, and its key is in that player's
\* sanctifiedTiles; and every player's sanctifiedTiles is a subset of their
\* ownedTiles.
SanctifiedTilesHaveLiveOwner ==
    /\ \A k \in DOMAIN state.tiles :
          state.tiles[k].sanctified
            => /\ state.tiles[k].owner \in DOMAIN state.players
               /\ state.tiles[k].domainAttunement # NoDomain
               /\ k \in state.players[state.tiles[k].owner].sanctifiedTiles
    /\ \A o \in DOMAIN state.players :
          state.players[o].sanctifiedTiles \subseteq state.players[o].ownedTiles

\* the capture of action in state s has to fail: no target tile, no such
\* tile, an impassable tile, a tile the current player owns, or less divinity
\* than the capture costs
captureMustFail(s, action) ==
    LET pos == action.targetTile
        player == s.players[s.currentPlayer]
    IN \/ pos = NoTile
       \/ pos \notin DOMAIN s.tiles
       \/ s.tiles[pos].impassable
       \/ s.tiles[pos].owner = player.owner
       \/ player.divinity < calculateCaptureCost(s, player, pos)

\* the tile and player fields C13 lists
captureView(s) ==
    [tiles |-> [k \in DOMAIN s.tiles |->
                  [owner |-> s.tiles[k].owner, stability |-> s.tiles[k].stability,
                   sanctified |-> s.tiles[k].sanctified,
                   divinityYield |-> s.tiles[k].divinityYield,
                   faithYield |-> s.tiles[k].faithYield,
                   eventTriggered |-> s.tiles[k].eventTriggered]],
     players |-> [o \in DOMAIN s.players |->
                    [divinity |-> s.players[o].divinity, faith |-> s.players[o].faith,
                     ownedTiles |-> s.players[o].ownedTiles,
                     sanctifiedTiles |-> s.players[o].sanctifiedTiles,
                     units |-> s.players[o].units,
                     capturedThisTurn |-> s.players[o].capturedThisTurn]]]

\* C13: a capture submitted by the current player fails exactly when the
\* target tile is missing or impassable, is the player's own, or the player's
\* divinity is below the computed cost; a failed capture returns false and
\* leaves every tile's owner, stability, sanctified flag, yields and
\* eventTriggered flag and every player's divinity, faith, tile sets, units
\* and capture counter as they were.
CaptureFailsExactlyWhen ==
    \A action \in CaptureInputs(state) : \A r \in executeAction(Engine, action) :
        /\ ~r.ok <=> captureMustFail(state, action)
        /\ ~r.ok => captureView(r.e.s) = captureView(state)

\* a capture of a passable tile of another owner is refused for its cost, and
\* another capture is accepted
CaptureFailsExactlyWhenWitness ==
    /\ \E action \in CaptureInputs(state) :
          /\ action.targetTile \in DOMAIN state.tiles
          /\ ~state.tiles[action.targetTile].impassable
          /\ state.tiles[action.targetTile].owner # state.players[state.currentPlayer].owner
          /\ state.players[state.currentPlayer].divinity
               < calculateCaptureCost(state, state.players[state.currentPlayer],
                                      action.targetTile)
          /\ \A r \in executeAction(Engine, action) : ~r.ok
    /\ \E action \in CaptureInputs(state) : \E r \in executeAction(Engine, action) : r.ok
    /\ calls > 0

\* the tile of the spec's capture scenario: stability 3, no owned neighbour,
\* no domain modifier, no supporting unit, no corruption
scenarioTile(s, player, pos) ==
    /\ s.tiles[pos].stability = 3
    /\ \A n \in Range(getNeighbors(pos, s.mapSize)) : s.tiles[n].owner # player.owner
    /\ player.domain \notin {"fire", "order"}
    /\ calculateUnitSupport(player, pos) = 0
    /\ s.tiles[pos].corruption = 0

\* a capture of the tile triggers no first-visit event
noTileEvent(tile) ==
    tile.eventTriggered \/ tile.type \notin {"ancient_ruins", "sacred_well", "village"}

\* C14: a capture of a passable tile of another owner by a player whose
\* divinity is at least the computed cost succeeds: the tile's owner becomes
\* the player, its key is in the player's ownedTiles and no longer in the
\* previous player-owner's, the capture counter rises by 1 and, on a tile with
\* no first-visit event, divinity falls by exactly the cost.  On the scenario
\* tile (cost 7) divinity 7 ends at 0 and divinity 6 fails with the owner
\* unchanged.
CaptureSucceedsAndPays ==
    \A action \in CaptureInputs(state) : \A r \in executeAction(Engine, action) :
        LET pos == action.targetTile
            me == state.currentPlayer
            player == state.players[me]
            after == r.e.s
        IN (pos \in DOMAIN state.tiles /\ ~state.tiles[pos].impassable
              /\ state.tiles[pos].owner # player.owner)
           => LET tile == state.tiles[pos]
                  cost == calculateCaptureCost(state, player, pos)
              IN /\ player.divinity >= cost
                   => /\ r.ok
                      /\ after.tiles[pos].owner = player.owner
                      /\ pos \in after.players[me].ownedTiles
                      /\ tile.owner \in DOMAIN state.players
                           => pos \notin after.players[tile.owner].ownedTiles
                      /\ after.players[me].capturedThisTurn = player.capturedThisTurn + 1
                      /\ noTileEvent(tile)
                           => after.players[me].divinity = player.divinity - cost
                 /\ (scenarioTile(state, player, pos) /\ player.divinity = 7)
                   => r.ok /\ after.players[me].divinity = 0
                 /\ (scenarioTile(state, player, pos) /\ player.divinity = 6)
                   => ~r.ok /\ after.tiles[pos].owner = tile.owner

\* the first player, with an income of 7 after sanctifying the corner, has
\* captured the scenario tile from the second player in turn 3 for all 7
CaptureSucceedsAndPaysWitness ==
    /\ returned = <<TRUE>>
    /\ state.turn = 3
    /\ state.currentPlayer = "player"
    /\ state.players["player"].sanctifiedTiles = {OwnCentre, Corner}
    /\ state.tiles[FarEdge].owner = "player"
    /\ FarEdge \in state.players["player"].ownedTiles
    /\ FarEdge \notin state.players["ai1"].ownedTiles
    /\ state.players["player"].capturedThisTurn = 1
    /\ state.players["player"].divinity = 0

\* the tiles whose corruption rose to 2 in the step
risenToTwo ==
    {k \in DOMAIN state.tiles : state.tiles[k].corruption < 2 /\ state'.tiles[k].corruption = 2}

\* C15: in a step that starts a later turn of a running match (the only
\* such steps in which a spread pass runs), every tile whose corruption rose to 2 is
\* Shadow-owned afterwards, in no player's owned or sanctified set, not
\* sanctified and at stability 3, and the Shadow influence has risen by
\* exactly the number of those tiles, capped at 100.
SpreadConvertsAndCounts ==
    [][(gen' = gen /\ state.turn >= 1 /\ state'.turn = state.turn + 1)
         => /\ \A k \in risenToTwo :
                  /\ state'.tiles[k].owner = Shadow
                  /\ ~state'.tiles[k].sanctified
                  /\ state'.tiles[k].stability = 3
                  /\ \A o \in DOMAIN state'.players :
                        /\ k \notin state'.players[o].ownedTiles
                        /\ k \notin state'.players[o].sanctifiedTiles
            /\ state'.shadowInfluence
                 = Min(100, state.shadowInfluence + Cardinality(risenToTwo))]_vars

\* C16: the corruption-spread pass runs exactly once per full round.  Every
\* step that starts a turn runs one spread pass when it starts a turn of the
\* first player in table order and no spread pass when it starts a turn of
\* any other player, whatever the number of players from one to four; so
\* exactly one pass runs between two consecutive turn starts of the first
\* player.
SpreadOncePerRound ==
    [][state'.turn = state.turn + 1 =>
          spreadCalls' = IF state'.currentPlayer = PlayerKeys(state')[1] THEN 1 ELSE 0]_vars

\* the second round of a match of four players has started
SpreadOncePerRoundWitness ==
    /\ Len(PlayerKeys(state)) = 4
    /\ state.turn = 5
    /\ state.currentPlayer = "player"
    /\ spreadCalls = 1

\* the key that follows the current player in the player table, the first
\* key after the last
nextInTable(s) ==
    LET keys == PlayerKeys(s)
        after == {i \in DOMAIN keys : i > 1 /\ keys[i - 1] = s.currentPlayer}
    IN IF after = {} THEN keys[1] ELSE keys[CHOOSE i \in after : TRUE]

\* a step in which endTurn ran: an end_turn action returned, or an AI
\* callback left its loop
endTurnStep ==
    \/ returned' # << >>
    \/ aiRun # << >> /\ aiRun' = << >>

\* C17 as stated: each EndTurn makes the next key of the player table the
\* current player, wrapping from the last key to the first, and raises the
\* turn counter by exactly 1; and currentPlayer is a key of the player table
\* in every state.
EndTurnRoundRobinAlwaysKey ==
    /\ [][endTurnStep => /\ state'.currentPlayer = nextInTable(state)
                         /\ state'.turn = state.turn + 1]_vars
    /\ [](state.currentPlayer \in DOMAIN state.players)

\* C17, amended: each EndTurn makes the next key of the player table the
\* current player, wrapping from the last key to the first, and raises the
\* turn counter by exactly 1; and currentPlayer is a key of the player table
\* whenever the table is not empty.
EndTurnRoundRobin ==
    /\ [][endTurnStep => /\ state'.currentPlayer = nextInTable(state)
                         /\ state'.turn = state.turn + 1]_vars
    /\ [](DOMAIN state.players # {} => state.currentPlayer \in DOMAIN state.players)

\* the last of four players has ended the turn and the first player's second
\* turn has started
EndTurnRoundRobinWitness ==
    /\ DOMAIN state.players = {"player", "ai1", "ai2", "ai3"}
    /\ returned = <<TRUE>>
    /\ state.currentPlayer = "player"
    /\ state.turn = 5

\* C18: granting divinity, faith or shadow energy never leaves the currency
\* above its cap: after any grants to players whose currencies start at or
\* below their caps, every player's divinity is at most 20, faith at most 10
\* and shadow energy at most 10.
GrantsRespectCaps ==
    \A owner \in DOMAIN state.players :
        /\ state.players[owner].divinity <= MaxDivinityPerTurn
        /\ state.players[owner].faith <= MaxFaithPerTurn
        /\ state.players[owner].shadowEnergy <= MaxShadowEnergy

\* the player owns at least three quarters as many tiles as are revealed
ownsThreeQuarters(s, owner) ==
    4 * Cardinality(s.players[owner].ownedTiles) >= 3 * Cardinality(s.revealedTiles)

\* C19: with Conquest enabled and a non-empty revealed set, the evaluation of
\* any state a match reaches reports a Conquest win exactly when a player
\* owns at least 0.75 times as many tiles as are revealed, and reports it
\* for such a player: 3 of 4 wins, 2 of 4 does not.
ConquestAtThreshold ==
    (/\ \E i \in DOMAIN state.victoryConditions : state.victoryConditions[i] = "conquest"
     /\ state.revealedTiles # {}) =>
        LET victory == checkVictory(state) IN
        /\ victory.condition = "conquest" =>
              /\ victory.winner \in DOMAIN state.players
              /\ ownsThreeQuarters(state, victory.winner)
        /\ (\E owner \in DOMAIN state.players : ownsThreeQuarters(state, owner)) =>
              victory.condition = "conquest"

\* an action of a player who owns 3 tiles was evaluated with 4 tiles
\* revealed, and the evaluation reports the Conquest win
ConquestAtThresholdWitness ==
    /\ returned # << >>
    /\ Cardinality(state.revealedTiles) = 4
    /\ Cardinality(state.players["player"].ownedTiles) = 3
    /\ state.players["player"].victoryProgress = ("conquest" :> <<3, 4>>)
    /\ checkVictory(state).winner = "player"
    /\ checkVictory(state).condition = "conquest"

\* no player meets a victory condition that is enabled
noPlayerWins(s) ==
    \A owner \in DOMAIN s.players : \A i \in DOMAIN s.victoryConditions :
        ~checkPlayerVictoryCondition(s, s.players[owner], s.victoryConditions[i])

passableTiles(s) == {k \in DOMAIN s.tiles : ~s.tiles[k].impassable}

\* Shadow owns at least three fifths of the passable tiles
shadowHoldsThreeFifths(s) ==
    5 * Cardinality({k \in passableTiles(s) : s.tiles[k].owner = Shadow})
        >= 3 * Cardinality(passableTiles(s))

\* C20: when an action is evaluated in a match that is being played, no
\* player meets an enabled victory condition and Shadow owns at least 60% of
\* the passable tiles, the evaluation reports Shadow as the winner, with no
\* condition and no player winning, and the phase leaves playing for a
\* terminal phase.
ShadowWinsAtThreeFifths ==
    [][(/\ returned' # << >>
        /\ state.phase = "playing"
        /\ noPlayerWins(state')
        /\ shadowHoldsThreeFifths(state'))
       => /\ checkVictory(state').winner = Shadow
          /\ checkVictory(state').condition = NoWinner
          /\ state'.phase \in {"victory", "defeat"}]_vars

\* an action was evaluated with Shadow owning exactly 3 of 5 passable tiles
\* and the player owning the other two, all revealed: Shadow is reported as
\* the winner and the match is over
ShadowWinsAtThreeFifthsWitness ==
    /\ returned # << >>
    /\ Cardinality(passableTiles(state)) = 5
    /\ Cardinality({k \in passableTiles(state) : state.tiles[k].owner = Shadow}) = 3
    /\ Cardinality(state.players["player"].ownedTiles) = 2
    /\ noPlayerWins(state)
    /\ checkVictory(state).winner = Shadow
    /\ state.phase = "victory"

visibleTiles(s) == {k \in DOMAIN s.tiles : s.tiles[k].visibility = Visible}

notHiddenTiles(s) == {k \in DOMAIN s.tiles : s.tiles[k].visibility # Hidden}

\* C21: every state of a match is left by a call of the Visibility Engine
\* with no unit movement, ownership or sanctification change after it;
\* calling the engine again yields the same set of Visible tiles, a third
\* call yields it once more, and no tile that was Visible or Seen becomes
\* Hidden.
VisibilityIdempotent ==
    state.turn >= 1 =>
        LET second == updateVisibility(state)
            third == updateVisibility(second)
        IN /\ visibleTiles(second) = visibleTiles(state)
           /\ visibleTiles(third) = visibleTiles(second)
           /\ notHiddenTiles(state) \subseteq notHiddenTiles(second)
           /\ notHiddenTiles(second) \subseteq notHiddenTiles(third)

\* an action was executed while some tiles are Visible and others Seen
VisibilityIdempotentWitness ==
    /\ returned = <<TRUE>>
    /\ visibleTiles(state) # {}
    /\ notHiddenTiles(state) \ visibleTiles(state) # {}
    /\ visibleTiles(updateVisibility(state)) = visibleTiles(state)

\* C22: visibility is monotone over every step of a match: a tile that is
\* Seen or Visible never returns to Hidden, the revealed-tile set only grows,
\* and every tile that is not Hidden is in the revealed-tile set.
VisibilityMonotone ==
    /\ [][(gen' = gen /\ state.turn >= 1) =>
             /\ notHiddenTiles(state) \subseteq notHiddenTiles(state')
             /\ state.revealedTiles \subseteq state'.revealedTiles]_vars
    /\ [](notHiddenTiles(state) \subseteq state.revealedTiles)

\* the second player's turn has started: the first player's sanctified
\* centre, Visible during the first turn, is Seen and revealed
VisibilityMonotoneWitness ==
    /\ state.turn = 2
    /\ state.currentPlayer = "ai1"
    /\ OwnCentre \in DOMAIN state.tiles
    /\ state.tiles[OwnCentre].visibility = Seen
    /\ OwnCentre \in state.revealedTiles

\* ids of the wights in the unit list of the player at key owner
listWights(s, owner) ==
    {s.players[owner].units[i].id :
        i \in {j \in DOMAIN s.players[owner].units : s.players[owner].units[j].type = "wight"}}

\* ids of the wights of that owner in the global unit table
tableWights(s, owner) ==
    {id \in DOMAIN s.units : s.units[id].type = "wight" /\ s.units[id].owner = owner}

\* a step that starts a turn of the player at key owner
startsTurnOf(owner) == state'.turn = state.turn + 1 /\ state'.currentPlayer = owner

\* C23: a wight lives for one full turn.  A step that does not start a turn
\* of a wight's owner keeps the wight in the owner's unit list and in the
\* unit table; the step that starts the owner's next turn leaves no wight of
\* that owner in either; so the wights present while their owner is the
\* current player were all spawned in that turn.
WightLivesOneTurn ==
    /\ [][\A owner \in DOMAIN state.players \cap DOMAIN state'.players :
             IF startsTurnOf(owner)
             THEN listWights(state', owner) = {} /\ tableWights(state', owner) = {}
             ELSE /\ listWights(state, owner) \subseteq listWights(state', owner)
                  /\ tableWights(state, owner) \subseteq tableWights(state', owner)]_vars
    /\ [](state.currentPlayer \in DOMAIN state.players =>
             \A i \in DOMAIN state.players[state.currentPlayer].units :
                state.players[state.currentPlayer].units[i].type = "wight" =>
                   state.players[state.currentPlayer].units[i].turnsAlive = 0)

\* the first player's third turn has started after the capture of the
\* village in the first turn spawned a wight, and no wight is left
WightLivesOneTurnWitness ==
    /\ state.turn = 3
    /\ state.currentPlayer = "player"
    /\ state.players["player"].domain = "death"
    /\ Village \in state.players["player"].ownedTiles
    /\ state.players["player"].capturedThisTurn = 0
    /\ listWights(state, "player") = {}
    /\ tableWights(state, "player") = {}

\* ids of the units in the unit list of the player at key owner
listUnitIds(s, owner) ==
    {s.players[owner].units[i].id : i \in DOMAIN s.players[owner].units}

\* C24: the ids of the global unit table are exactly the ids found in the
\* players' unit lists, and every unit is in the list of one player only,
\* once, the player its owner field names.
UnitTableMirrorsLists ==
    /\ DOMAIN state.units = UNION {listUnitIds(state, owner) : owner \in DOMAIN state.players}
    /\ \A owner \in DOMAIN state.players :
          LET us == state.players[owner].units IN
          /\ \A i \in DOMAIN us : us[i].owner = owner
          /\ \A i, j \in DOMAIN us : us[i].id = us[j].id => i = j
    /\ \A o1, o2 \in DOMAIN state.players :
          o1 # o2 => listUnitIds(state, o1) \cap listUnitIds(state, o2) = {}

\* an attack has eliminated the second player's explorer while a wight of
\* the first player stands in the captured tile: the explorer's id is in
\* neither the list nor the table
UnitTableMirrorsListsWitness ==
    /\ returned = <<TRUE>>
    /\ state.players["ai1"].units = << >>
    /\ listWights(state, "player") # {}
    /\ \A id \in DOMAIN state.units : state.units[id].owner = "player"
    /\ Cardinality(DOMAIN state.units) = 2

\* ------------------------------------------------------ the selection play

\* The main map with a second village next to the second player's region.
AILayout == [MainLayout EXCEPT !.villages = @ \cup {<<7, 1>>}]

\* tiles around that village and that region which spread passes of earlier
\* rounds may have corrupted
ShadowReach == {<<6, 1>>, <<7, 0>>, <<7, 2>>, <<11, 1>>}

\* the engines in which the second player's turn has begun and its callback
\* is pending, with the corruption earlier spread passes have left
AIInputs ==
    LET fresh == UNION {initializeGameResume(initializeGameBegin(NewEngine, options), options)
                        : options \in {o \in [layout : {l \in {AILayout} : ValidLayout(l)},
                                              players : PlayerOptions] : TRUE}}
        begun == UNION {{r.e : r \in endTurn(f)} : f \in {g \in fresh : QuietStart(g)}}
    IN {[e EXCEPT !.s.tiles = [k \in DOMAIN e.s.tiles |->
                                  IF k \in hit THEN [e.s.tiles[k] EXCEPT !.corruption = 1]
                                  ELSE e.s.tiles[k]]]
        : e \in begun, hit \in SUBSET ShadowReach}

AIInit ==
    /\ \E e \in AIInputs :
          /\ state = e.s
          /\ shared = e.shared
          /\ timers = e.timers
          /\ actionHistory = e.actionHistory
          /\ gen = e.gen
          /\ orphans = e.orphans
          /\ spreadCalls = e.spreadCalls
    /\ aiRun = << >>
    /\ pendingInit = << >>
    /\ saved = {}
    /\ returned = << >>
    /\ calls = 0

AINext ==
    \/ TimerFire
    \/ AIStep
    \/ AIEnd

\* The turn of an AI player: its callback selects actions until it ends the
\* turn.
AISpec == AIInit /\ [][AINext]_vars

\* C25: for an aggressive AI player, a capture candidate and a fortify
\* candidate whose utilities before the personality weights are equal, the
\* capture is the one of the two that the sort puts first and that is
\* selected, whatever the equal utility is.
sortedFirst(s, player, c, jc, d, jd) ==
    IF score(s, player, d, jd) > score(s, player, c, jc)
       \/ (score(s, player, d, jd) = score(s, player, c, jc) /\ rank(d) < rank(c))
    THEN d ELSE c

equalUtilities(s, player) ==
    {q \in generateCaptureActions(s, player) \X JitterDraws
           \X generateFortifyActions(s, player) \X JitterDraws :
        calculateUtility(s, player, q[1], q[2]) = calculateUtility(s, player, q[3], q[4])}

AggressivePrefersCapture ==
    \A o \in DOMAIN state.players :
        state.players[o].aiPersonality = "aggressive" =>
            \A q \in equalUtilities(state, state.players[o]) :
                sortedFirst(state, state.players[o], q[1], q[2], q[3], q[4]) = q[1]

AggressivePrefersCaptureWitness ==
    /\ aiRun # << >>
    /\ aiRun[1].last # NoValue
    /\ state.players[aiRun[1].owner].aiPersonality = "aggressive"
    /\ equalUtilities(state, state.players[aiRun[1].owner]) # {}

\* the step is the continuation of initializeGame
initializeGameStep == pendingInit # << >> /\ pendingInit' = << >>

\* the start of PlayerKeys(s)[index] as C26 describes it
startAsDescribed(s, index) ==
    LET owner == PlayerKeys(s)[index]
        player == s.players[owner]
        startPos == startPositions(s.mapSize)[index]
    IN /\ Len(player.units) = 1
       /\ player.units[1].position = startPos
       /\ \A k \in startBlock(startPos) :
              /\ k \in DOMAIN s.tiles
              /\ s.tiles[k].owner = owner
              /\ ~s.tiles[k].impassable
       /\ startPos \in DOMAIN s.tiles
       /\ s.tiles[startPos].sanctified
       /\ s.tiles[startPos].domainAttunement = player.domain

\* C26: after initializeGame with 1 to 4 players the phase is playing, the
\* current player is the first player, and every player has exactly one
\* starting unit, owns every tile of the 3x3 block around its start position,
\* has the centre tile sanctified with its domain, and has no impassable
\* starting tile or starting unit position.
InitializeGamePlacesStarts ==
    [][initializeGameStep =>
          /\ state'.phase = "playing"
          /\ state'.currentPlayer = PlayerKeys(state')[1]
          /\ \A index \in 1..Len(PlayerKeys(state')) : startAsDescribed(state', index)]_vars

RngModulus == 512
AleaMultiplier == 2091639
FeatureAttempts == 100

\* seeds: one-character strings, by character code (' ', 'a', 'b', 'c')
BlankCode == 32
MapSeeds == {32, 97, 98, 99}

\* gameplay-time rolls made between two runs
MaxRolls == 2
MaxMapRuns == 2

\* numbers drawn for the permutation table of one noise field
NoiseTableSize == 2

\* mash: a hash of the seed's characters into [0, 1)
mash(code) == (code * 167 + 29) % RngModulus

\* alea(seed): mash keeps nothing between calls, so the three fractions start
\* equal
alea(seed) ==
    LET d == mash(BlankCode) - mash(seed)
        s == IF d < 0 THEN d + RngModulus ELSE d
    IN [s0 |-> s, s1 |-> s, s2 |-> s, c |-> 1]

\* one call of the generator: the value returned is the new s2
aleaNext(g) ==
    LET t == AleaMultiplier * g.s0 + g.c
    IN [s0 |-> g.s1, s1 |-> g.s2, s2 |-> t % RngModulus, c |-> t \div RngModulus]

\* Math.floor(rng() * n) for the draw that left the generator in g
floorTimes(g, n) == (g.s2 * n) \div RngModulus

\* Math.random after a number of gameplay rolls: a generator of the runtime,
\* seeded by nothing the program passes
mathRandom(rolls) ==
    LET F[n \in 0..MaxRolls] == IF n = 0 THEN [s0 |-> 1, s1 |-> 2, s2 |-> 3, c |-> 1]
                                ELSE aleaNext(F[n - 1])
    IN F[rolls]

\* createNoise2D(rng): the field's table is filled from draws of rng
RECURSIVE createNoise2D(_, _)
createNoise2D(g, table) ==
    IF Len(table) = NoiseTableSize THEN [table |-> table, rng |-> g]
    ELSE createNoise2D(aleaNext(g), Append(table, aleaNext(g).s2))

\* the value of a noise field at a cell, in hundredths, in [-1, 1]
noiseAt(table, x, y) == ((table[1] * (x + 1) + table[2] * (y + 1)) % 201) - 100

\* generateTile, the thresholds on height and moisture
terrainKind(heightValue, moistureValue) ==
    IF heightValue > 75 THEN "mountain"
    ELSE IF heightValue < -50 THEN "water"
    ELSE IF heightValue < -25 THEN "coast"
    ELSE IF moistureValue > 60 /\ heightValue < 20 THEN "swamp"
    ELSE IF moistureValue > 30 THEN "forest"
    ELSE IF heightValue > 40 THEN "hills"
    ELSE IF moistureValue < -40 THEN "desert"
    ELSE "plains"

\* the generator after n more calls
RECURSIVE aleaAfter(_, _)
aleaAfter(g, n) ==
    IF n = 0 THEN g
    ELSE IF n = 1 THEN aleaNext(g)
    ELSE CHOOSE r \in {aleaAfter(h, n - n \div 2) : h \in {aleaAfter(g, n \div 2)}} : TRUE

\* placeFeatureType without the distance check
RECURSIVE placeFeatureTypeCrowded(_, _, _, _, _)
placeFeatureTypeCrowded(run, featureType, count, minDistance, size) ==
    IF run.i >= count THEN run
    ELSE LET posAt(attempt) ==
                 CHOOSE pos \in {<<floorTimes(aleaNext(g), size.width),
                                   floorTimes(aleaNext(aleaNext(g)), size.height)>>
                                 : g \in {aleaAfter(run.rng, 2 * attempt)}} : TRUE
             accepted(pos) ==
                 /\ ~run.tiles[pos].impassable
                 /\ run.tiles[pos].type # "water"
             hits == {attempt \in 0 .. FeatureAttempts - 1 : accepted(posAt(attempt))}
         IN IF hits = {}
            THEN placeFeatureTypeCrowded(
                    [run EXCEPT !.rng = aleaAfter(@, 2 * FeatureAttempts), !.i = @ + 1],
                    featureType, count, minDistance, size)
            ELSE LET first == CHOOSE attempt \in hits : \A other \in hits : attempt <= other
                     pos == posAt(first)
                 IN placeFeatureTypeCrowded(
                       [run EXCEPT !.rng = aleaAfter(@, 2 * first + 2), !.i = @ + 1,
                                   !.placed = @ \cup {pos},
                                   !.tiles[pos] = placeFeature(run.tiles[pos], featureType)],
                       featureType, count, minDistance, size)

\* placeFeatureType: run holds the tiles, the generator, the positions placed
\* and the index i of the for loop.  Every pass of the while loop draws x and
\* y and changes nothing else unless it places the feature, so the loop ends
\* at the first attempt whose cell is accepted, or after FeatureAttempts.
RECURSIVE placeFeatureType(_, _, _, _, _)
placeFeatureType(run, featureType, count, minDistance, size) ==
    IF run.i >= count THEN run
    ELSE LET posAt(attempt) ==
                 CHOOSE pos \in {<<floorTimes(aleaNext(g), size.width),
                                   floorTimes(aleaNext(aleaNext(g)), size.height)>>
                                 : g \in {aleaAfter(run.rng, 2 * attempt)}} : TRUE
             accepted(pos) ==
                 /\ ~run.tiles[pos].impassable
                 /\ run.tiles[pos].type # "water"
                 /\ \A p \in run.placed : Manhattan(p, pos) >= minDistance
             hits == {attempt \in 0 .. FeatureAttempts - 1 : accepted(posAt(attempt))}
         IN IF hits = {}
            THEN placeFeatureType(
                    [run EXCEPT !.rng = aleaAfter(@, 2 * FeatureAttempts), !.i = @ + 1],
                    featureType, count, minDistance, size)
            ELSE LET first == CHOOSE attempt \in hits : \A other \in hits : attempt <= other
                     pos == posAt(first)
                 IN placeFeatureType(
                       [run EXCEPT !.rng = aleaAfter(@, 2 * first + 2), !.i = @ + 1,
                                   !.placed = @ \cup {pos},
                                   !.tiles[pos] = placeFeature(run.tiles[pos], featureType)],
                       featureType, count, minDistance, size)

\* placeFeatures: villages, then sacred wells, then ruins, each with its own
\* list of placed positions
placeFeatures(tiles, size, g) ==
    LET area == size.width * size.height
        start(r) == [tiles |-> r.tiles, rng |-> r.rng, placed |-> {}, i |-> 0]
        r1 == placeFeatureType(start([tiles |-> tiles, rng |-> g]),
                               "village", villageCount(area), 3, size)
        r2 == placeFeatureType(start(r1), "sacred_well", sacredWellCount(area), 5, size)
    IN placeFeatureType(start(r2), "ancient_ruins", ruinCount(area), 4, size)

\* placeShadowSeeds: tiles is the array in generation order, x outermost
RECURSIVE placeShadowSeeds(_, _)
placeShadowSeeds(run, size) ==
    LET count == shadowCount(size.width * size.height) IN
    IF ~(run.i < count /\ run.attempts < count * 10) THEN run
    ELSE LET g1 == aleaNext(run.rng)
             index == floorTimes(g1, size.width * size.height)
             pos == <<index \div size.height, index % size.height>>
             tile == run.tiles[pos]
         IN IF seedAllowed(pos, tile, size)
            THEN placeShadowSeeds([run EXCEPT !.rng = g1, !.attempts = @ + 1, !.i = @ + 1,
                                              !.tiles[pos] = placeShadowSeed(tile)], size)
            ELSE placeShadowSeeds([run EXCEPT !.rng = g1, !.attempts = @ + 1], size)

\* generateMap with the generator it draws from
generateMapFrom(size, rng) ==
    LET heightNoise == createNoise2D(rng, << >>)
        moistureNoise == createNoise2D(heightNoise.rng, << >>)
        featureNoise == createNoise2D(moistureNoise.rng, << >>)
        tiles == [k \in MapKeys(size.width, size.height) |->
                    generateTile(terrainKind(noiseAt(heightNoise.table, k[1], k[2]),
                                             noiseAt(moistureNoise.table, k[1], k[2])))]
        featured == placeFeatures(tiles, size, featureNoise.rng)
    IN placeShadowSeeds([tiles |-> featured.tiles, rng |-> featured.rng, i |-> 0, attempts |-> 0], size).tiles

\* generateMap drawing from Math.random
generateMapUnseeded(size, seed, random) == generateMapFrom(size, random)

\* generateMap(width, height, seed): rng = alea(seed); random is the state of
\* Math.random at the call
generateMapSeeded(size, seed, random) == generateMapFrom(size, alea(seed))

\* a call of mapGen.generateMap; the caller keeps what it returned
GenerateMapCall ==
    /\ Len(returned) < MaxMapRuns
    /\ \E size \in {MainSize, SmallSize}, seed \in MapSeeds :
          returned' = Append(returned,
                             [size |-> size, seed |-> seed, rolls |-> calls,
                              tiles |-> generateMapSeeded(size, seed, mathRandom(calls))])
    /\ UNCHANGED <<state, shared, timers, actionHistory, gen, orphans, spreadCalls,
                   aiRun, pendingInit, saved, calls>>

\* a gameplay-time roll: a call of Math.random
RandomRoll ==
    /\ calls < MaxRolls
    /\ calls' = calls + 1
    /\ UNCHANGED <<state, shared, timers, actionHistory, gen, orphans, spreadCalls,
                   aiRun, pendingInit, saved, returned>>

MapNext ==
    \/ GenerateMapCall
    \/ RandomRoll

\* Maps generated for given sizes and seeds, with gameplay rolls in between.
MapSpec == Init /\ [][MapNext]_vars

CostSide == 3
CostKeys == MapKeys(CostSide, CostSide)
CostCentre == <<1, 1>>
CostTargets == {<<1, 1>>, <<0, 0>>}

costUnit(id, type, pos) ==
    [ id |-> id, type |-> type, owner |-> "player", position |-> pos,
      movePoints |-> 1, maxMovePoints |-> 1, perception |-> 1, turnsAlive |-> 1 ]

\* the unit lists drawn: no unit; one herald next to both targets; heralds
\* next to the centre, on the centre and two cells away, and an explorer next
\* to it
CostUnits ==
    { << >>,
      <<costUnit(1, "herald", <<1, 0>>)>>,
      <<costUnit(1, "herald", <<1, 0>>), costUnit(2, "herald", <<2, 1>>),
        costUnit(3, "herald", <<1, 1>>), costUnit(4, "herald", <<2, 2>>),
        costUnit(5, "explorer", <<0, 1>>)>> }

\* a relic's passive modifiers; value2 is the value in halves.  A relic with
\* no passive list has the empty one here.
CostRelics ==
    { << >>,
      << <<[type |-> "capture_cost", value2 |-> -2]>> >>,
      << << >>, <<[type |-> "move_cost", value2 |-> -2],
                  [type |-> "capture_cost", value2 |-> -3]>>,
         <<[type |-> "capture_cost", value2 |-> 2]>> >>,
      << <<[type |-> "capture_cost", value2 |-> -40]>> >> }

\* The game states the cost is computed in: a 3 x 3 map whose centre is the
\* target, its four neighbours neutral or the player's, the target a plains
\* or hills tile at its base stability or at 3, clean or corrupted.
CostInputs ==
    {[createEmptyState(1) EXCEPT
         !.turn = 1,
         !.phase = "playing",
         !.mapSize = [width |-> CostSide, height |-> CostSide],
         !.tiles = [k \in CostKeys |->
                       IF k = CostCentre
                       THEN [generateTile(kind) EXCEPT
                                !.stability = IF raised THEN 3 ELSE @,
                                !.corruption = corruption]
                       ELSE [generateTile("plains") EXCEPT
                                !.owner = IF k \in owned THEN "player" ELSE Neutral]],
         !.players = "player" :>
             [newPlayer(1, 1, [domain |-> domain, aiPersonality |-> "balanced"])
                 EXCEPT !.ownedTiles = owned, !.units = units],
         !.units = [id \in {units[i].id : i \in DOMAIN units} |->
                       units[CHOOSE i \in DOMAIN units : units[i].id = id]]]
     : owned \in SUBSET {<<1, 0>>, <<2, 1>>, <<1, 2>>, <<0, 1>>},
       kind \in {"plains", "hills"},
       raised \in BOOLEAN,
       corruption \in {0, 1},
       domain \in {"death", "fire", "order"},
       units \in CostUnits}

CostInit ==
    /\ state \in CostInputs
    /\ shared = {}
    /\ timers = << >>
    /\ actionHistory = << >>
    /\ gen = 1
    /\ orphans = EmptyFcn
    /\ spreadCalls = 0
    /\ aiRun = << >>
    /\ pendingInit = << >>
    /\ saved = {}
    /\ returned = << >>
    /\ calls = 0

\* calculateCaptureCost for a player holding relics
calculateCaptureCostWith(s, player, pos, relics) ==
    LET tile == s.tiles[pos]
        modifiers == UNION {{<<r, m>> : m \in DOMAIN relics[r]} : r \in DOMAIN relics}
        costModifiers == {q \in modifiers : relics[q[1]][q[2]].type = "capture_cost"}
        value2 == [q \in costModifiers |-> relics[q[1]][q[2]].value2]
        cost2 == 2 * (CaptureBaseCost + tile.stability
                      - calculateAdjacencyBonus(s, player, pos)
                      - calculateUnitSupport(player, pos)
                      + (IF tile.corruption > 0 THEN 1 ELSE 0))
                 + getDomainCaptureModifier2(player.domain, tile)
                 + SumOver(costModifiers, value2)
    IN Max(1, cost2 \div 2)

\* a call of calculateCaptureCost; the caller keeps the arguments and the
\* value returned
CostCall ==
    /\ calls = 0
    /\ calls' = calls + 1
    /\ \E pos \in CostTargets, relics \in CostRelics :
          returned' = <<[pos |-> pos, relics |-> relics,
                         cost |-> calculateCaptureCostWith(state, state.players["player"],
                                                           pos, relics)]>>
    /\ UNCHANGED <<state, shared, timers, actionHistory, gen, orphans, spreadCalls,
                   aiRun, pendingInit, saved>>

\* The capture cost of given game states.
CostSpec == CostInit /\ [][CostCall]_vars

\* the cost as C29 gives it, in halves before the floor
claimedCost(s, player, pos, relics) ==
    LET tile == s.tiles[pos]
        ownedNeighbours == Cardinality({k \in DOMAIN s.tiles :
                               Manhattan(k, pos) = 1 /\ s.tiles[k].owner = player.owner})
        adjacencyBonus == IF ownedNeighbours >= 4 THEN 2
                          ELSE IF ownedNeighbours \in {2, 3} THEN 1 ELSE 0
        corruptionPenalty == IF tile.corruption > 0 THEN 1 ELSE 0
        unitSupport == Cardinality({i \in DOMAIN player.units :
                           /\ player.units[i].type = "herald"
                           /\ Manhattan(player.units[i].position, pos) = 1})
        relicSum2 == SumOver({<<r, m>> \in (1..Len(relics)) \X (1..3) : m <= Len(relics[r])},
                             [q \in (1..Len(relics)) \X (1..3) |->
                                 IF q[2] <= Len(relics[q[1]])
                                    /\ relics[q[1]][q[2]].type = "capture_cost"
                                 THEN relics[q[1]][q[2]].value2 ELSE 0])
        total2 == 2 * (CaptureBaseCost + tile.stability - adjacencyBonus - unitSupport
                       + corruptionPenalty)
                  + getDomainCaptureModifier2(player.domain, tile) + relicSum2
        floor == IF total2 >= 0 THEN total2 \div 2 ELSE 0 - ((1 - total2) \div 2)
    IN IF floor >= 1 THEN floor ELSE 1

CaptureShakesAndDesanctifies ==
    \A action \in CaptureInputs(state) : \A r \in executeAction(Engine, action) :
        LET pos == action.targetTile
            me == state.currentPlayer
        IN (r.ok /\ me \in DOMAIN state.players /\ pos \in DOMAIN state.tiles)
           => LET tile == state.tiles[pos]
                  after == r.e.s.tiles[pos]
                  shaken == Max(1, tile.stability - 1)
              IN /\ after.stability = IF state.players[me].domain = "order"
                                      THEN Min(10, shaken + 1) ELSE shaken
                 /\ tile.sanctified
                      => /\ ~after.sanctified
                         /\ after.domainAttunement = NoDomain
                         /\ after.divinityYield = Max(0, tile.divinityYield - 1)
                         /\ tile.owner \in DOMAIN state.players
                              => pos \notin r.e.s.players[tile.owner].sanctifiedTiles

\* the second player has captured the corner the first player sanctified in
\* the turn before: the tile is no longer sanctified, its yield is back at 0
\* and its key has left the first player's sanctifiedTiles
CaptureShakesAndDesanctifiesWitness ==
    /\ returned = <<TRUE>>
    /\ state.currentPlayer = "ai1"
    /\ state.players["player"].sanctifiedThisTurn = 1
    /\ state.players["ai1"].capturedThisTurn = 1
    /\ state.tiles[Corner].owner = "ai1"
    /\ ~state.tiles[Corner].sanctified
    /\ state.tiles[Corner].domainAttunement = NoDomain
    /\ state.tiles[Corner].divinityYield = 0
    /\ state.tiles[Corner].stability = 4
    /\ Corner \notin state.players["player"].sanctifiedTiles

\* C31: first-visit tile events fire at most once per tile over any captures
\* and recaptures: a successful capture of a sacred well, village or ruins
\* whose event has not fired sets eventTriggered; a successful capture of a
\* tile whose eventTriggered is set gives no well or village bonus or penalty
\* (divinity falls by exactly the cost, faith changes only by the life
\* domain's capture effect, stability only by the capture and the order
\* domain's effect); and eventTriggered, once set, is never cleared.
TileEventsFireOnce ==
    /\ [](\A action \in CaptureInputs(state) : \A r \in executeAction(Engine, action) :
            LET pos == action.targetTile
                me == state.currentPlayer
            IN (r.ok /\ me \in DOMAIN state.players /\ pos \in DOMAIN state.tiles)
               => LET tile == state.tiles[pos]
                      player == state.players[me]
                      after == r.e.s
                      shaken == Max(1, tile.stability - 1)
                  IN /\ ~noTileEvent(tile) => after.tiles[pos].eventTriggered
                     /\ tile.eventTriggered
                          => /\ after.players[me].divinity
                                  = player.divinity - calculateCaptureCost(state, player, pos)
                             /\ after.players[me].faith
                                  = player.faith + (IF player.domain = "life" THEN 1 ELSE 0)
                             /\ after.tiles[pos].stability
                                  = IF player.domain = "order" THEN Min(10, shaken + 1)
                                    ELSE shaken)
    /\ [][\A k \in DOMAIN state.tiles \cap DOMAIN state'.tiles :
             state.tiles[k].eventTriggered => state'.tiles[k].eventTriggered]_vars

\* the second player has recaptured the sacred well whose event fired when
\* the first player captured it in the turn before
TileEventsFireOnceWitness ==
    /\ returned = <<TRUE>>
    /\ state.currentPlayer = "ai1"
    /\ state.tiles[Well].owner = "ai1"
    /\ state.tiles[Well].eventTriggered
    /\ state.players["ai1"].capturedThisTurn = 1
    /\ state.players["player"].capturedThisTurn = 1
    /\ Well \notin state.players["player"].ownedTiles
    /\ Cardinality(state.players["player"].ownedTiles) = 8

\* ------------------------------------------------------- the spread play

SpreadWidth == 3
SpreadKeys == MapKeys(SpreadWidth, 1)

PerCorruptedNeighborPct == 5
PerSanctifiedNeighborPct == -3
WardenAdjacentPct == -5
OrderOwnerPct == -25
SpreadMinPct == 2
SpreadMaxPct == 60

\* the values Math.random() returns in a pass, in thousandths: below the
\* minimum probability, between the probabilities of one and of two corrupted
\* neighbours, above the maximum
SpreadDraws == {10, 170, 999}

\* the tiles a pass can meet
spreadTile(kind, domain) ==
    LET plains == generateTile("plains") IN
    CASE kind = "clean" -> plains
      [] kind = "corrupted" -> [plains EXCEPT !.corruption = 1]
      [] kind = "shadow" -> [plains EXCEPT !.corruption = 2, !.owner = Shadow,
                                           !.stability = 3]
      [] kind = "mountain" -> generateTile("mountain")
      [] kind = "owned" -> [plains EXCEPT !.owner = "player"]
      [] kind = "sanctified" -> [plains EXCEPT !.owner = "player", !.sanctified = TRUE,
                                               !.domainAttunement = domain]
      [] kind = "tainted" -> [plains EXCEPT !.owner = "player", !.corruption = 1]

\* The game states a pass runs on: a row of tiles, each clean, corrupted,
\* Shadow-held, impassable, or held by the one player (clean, sanctified or
\* corrupted).
SpreadInputs ==
    {[createEmptyState(1) EXCEPT
         !.turn = 1,
         !.phase = "playing",
         !.mapSize = [width |-> SpreadWidth, height |-> 1],
         !.tiles = [k \in SpreadKeys |-> spreadTile(kinds[k], domain)],
         !.players = "player" :>
             [newPlayer(1, 1, [domain |-> domain, aiPersonality |-> "balanced"])
                 EXCEPT !.ownedTiles =
                            {k \in SpreadKeys : kinds[k] \in {"owned", "sanctified", "tainted"}},
                        !.sanctifiedTiles = {k \in SpreadKeys : kinds[k] = "sanctified"}]]
     : kinds \in [SpreadKeys -> {"clean", "corrupted", "shadow", "mountain", "owned",
                                 "sanctified", "tainted"}],
       domain \in {"death", "order"}}

SpreadInit ==
    /\ state \in SpreadInputs
    /\ shared = {}
    /\ timers = << >>
    /\ actionHistory = << >>
    /\ gen = 1
    /\ orphans = EmptyFcn
    /\ spreadCalls = 0
    /\ aiRun = << >>
    /\ pendingInit = << >>
    /\ saved = {}
    /\ returned = << >>
    /\ calls = 0

\* spreadShadow, the probability of one roll, in thousandths
spreadProbability(s, neighborKey) ==
    LET neighbor == s.tiles[neighborKey]
        neighborOfNeighbors ==
            {m \in Range(getNeighbors(neighborKey, s.mapSize)) : m \in DOMAIN s.tiles}
        corruptedNeighborCount ==
            Cardinality({m \in neighborOfNeighbors :
                            s.tiles[m].corruption > 0 \/ s.tiles[m].owner = Shadow})
        sanctifiedNeighborCount ==
            Cardinality({m \in neighborOfNeighbors : s.tiles[m].sanctified})
        hasWardenAdjacent ==
            \E id \in DOMAIN s.units :
                s.units[id].type = "warden" /\ s.units[id].position \in neighborOfNeighbors
        orderOwner == /\ neighbor.owner \in DOMAIN s.players
                      /\ s.players[neighbor.owner].domain = "order"
        probability == 10 * (ShadowSpreadBasePct
                             + PerCorruptedNeighborPct * corruptedNeighborCount
                             + PerSanctifiedNeighborPct * sanctifiedNeighborCount
                             + (IF hasWardenAdjacent THEN WardenAdjacentPct ELSE 0)
                             + (IF orderOwner THEN OrderOwnerPct ELSE 0))
        scaled == CASE s.shadowAggression = "low" -> probability \div 2
                    [] s.shadowAggression = "high" -> (3 * probability) \div 2
                    [] OTHER -> probability
    IN Max(10 * SpreadMinPct, Min(10 * SpreadMaxPct, scaled))

\* a roll whose hit is written to the tile at once
rollForInPlace(run, key, neighborKey, rolls) ==
    LET s == run.s IN
    IF neighborKey \notin DOMAIN s.tiles \/ s.tiles[neighborKey].impassable THEN run
    ELSE IF s.tiles[neighborKey].corruption >= 2 /\ s.tiles[neighborKey].owner = Shadow
    THEN run
    ELSE IF rolls[<<key, neighborKey>>] < spreadProbability(s, neighborKey)
    THEN LET currentCorruption == IF neighborKey \in DOMAIN run.levels
                                  THEN run.levels[neighborKey]
                                  ELSE s.tiles[neighborKey].corruption
         IN [ s |-> [s EXCEPT !.tiles[neighborKey].corruption = Min(2, currentCorruption + 1)],
              levels |-> [k \in DOMAIN run.levels \cup {neighborKey} |->
                            IF k = neighborKey THEN currentCorruption + 1
                            ELSE run.levels[k]],
              keys |-> IF neighborKey \in DOMAIN run.levels THEN run.keys
                       ELSE Append(run.keys, neighborKey) ]
    ELSE run

\* spreadShadow, the body of neighbors.forEach: one neighbour of one source.
\* run.s is the game state, run.levels the tilesToCorrupt map, run.keys its
\* keys in insertion order.
rollFor(run, key, neighborKey, rolls) ==
    LET s == run.s IN
    IF neighborKey \notin DOMAIN s.tiles \/ s.tiles[neighborKey].impassable THEN run
    ELSE IF s.tiles[neighborKey].corruption >= 2 /\ s.tiles[neighborKey].owner = Shadow
    THEN run
    ELSE IF rolls[<<key, neighborKey>>] < spreadProbability(s, neighborKey)
    THEN LET currentCorruption == IF neighborKey \in DOMAIN run.levels
                                  THEN run.levels[neighborKey]
                                  ELSE s.tiles[neighborKey].corruption
         IN [ s |-> s,
              levels |-> [k \in DOMAIN run.levels \cup {neighborKey} |->
                            IF k = neighborKey THEN currentCorruption + 1
                            ELSE run.levels[k]],
              keys |-> IF neighborKey \in DOMAIN run.levels THEN run.keys
                       ELSE Append(run.keys, neighborKey) ]
    ELSE run

RECURSIVE spreadTo(_, _, _, _, _)
\* spreadShadow, neighbors.forEach from the i-th neighbour on
spreadTo(run, key, neighbors, i, rolls) ==
    IF i > Len(neighbors) THEN run
    ELSE LET next == CHOOSE r \in {rollFor(run, key, neighbors[i], rolls)} : TRUE
         IN spreadTo(next, key, neighbors, i + 1, rolls)

RECURSIVE scanTiles(_, _, _, _)
\* spreadShadow, state.tiles.forEach over the tiles in the given order
scanTiles(run, order, i, rolls) ==
    IF i > Len(order) THEN run
    ELSE LET key == order[i]
             tile == run.s.tiles[key]
             next == IF tile.corruption < 1 /\ tile.owner # Shadow THEN run
                     ELSE CHOOSE r \in {spreadTo(run, key, getNeighbors(key, run.s.mapSize),
                                                 1, rolls)} : TRUE
         IN scanTiles(next, order, i + 1, rolls)

\* spreadShadow, the body of tilesToCorrupt.forEach
applyCorruption(s, key, corruptionLevel) ==
    IF key \notin DOMAIN s.tiles THEN s
    ELSE LET level == Min(2, corruptionLevel)
             previousOwner == s.tiles[key].owner
             s1 == [s EXCEPT !.tiles[key].corruption = level,
                             !.tiles[key].owner = Shadow,
                             !.tiles[key].stability = 3,
                             !.tiles[key].sanctified = FALSE,
                             !.tiles[key].domainAttunement = NoDomain]
             s2 == IF previousOwner \in DOMAIN s.players
                   THEN [s1 EXCEPT !.players[previousOwner].ownedTiles = @ \ {key},
                                   !.players[previousOwner].sanctifiedTiles = @ \ {key}]
                   ELSE s1
         IN IF level >= 2
            THEN [s2 EXCEPT !.shadowInfluence = Min(100, @ + 1)]
            ELSE [s EXCEPT !.tiles[key].corruption = level]

RECURSIVE applyAll(_, _, _, _)
\* spreadShadow, tilesToCorrupt.forEach in insertion order
applyAll(s, levels, keys, i) ==
    IF i > Len(keys) THEN s
    ELSE LET next == CHOOSE r \in {applyCorruption(s, keys[i], levels[keys[i]])} : TRUE
         IN applyAll(next, levels, keys, i + 1)

\* spreadShadow with the tiles scanned in the given order and the roll of each
\* (source, neighbour) pair given
spreadShadowScan(s, order, rolls) ==
    LET run == CHOOSE r \in {scanTiles([s |-> s, levels |-> EmptyFcn, keys |-> << >>],
                                       order, 1, rolls)} : TRUE
    IN updateNeutralAlignment(applyAll(run.s, run.levels, run.keys, 1))

\* the ordered pairs of adjacent cells, the orders of the tile table, and the
\* order the generator fills it in
SpreadPairs == {pair \in SpreadKeys \X SpreadKeys : Manhattan(pair[1], pair[2]) = 1}
ScanOrders ==
    {order \in [1 .. Cardinality(SpreadKeys) -> SpreadKeys] :
        \A i, j \in DOMAIN order : i # j => order[i] # order[j]}
insertionOrder == [i \in 1 .. SpreadWidth |-> <<i - 1, 0>>]

\* a spread pass; the caller keeps the scan order, the rolls and the state
\* the pass leaves
SpreadPass ==
    /\ calls = 0
    /\ calls' = calls + 1
    /\ \E order \in ScanOrders, rolls \in [SpreadPairs -> SpreadDraws] :
          returned' = <<[order |-> order, rolls |-> rolls,
                         after |-> spreadShadowScan(state, order, rolls)]>>
    /\ UNCHANGED <<state, shared, timers, actionHistory, gen, orphans, spreadCalls,
                   aiRun, pendingInit, saved>>

\* Spread passes over given game states.
SpreadSpec == SpreadInit /\ [][SpreadPass]_vars

\* the rolls that succeed, each judged on the grid the pass starts from
hitsAtStart(s, rolls) ==
    {pair \in spreadCandidates(s) : rolls[pair] < spreadProbability(s, pair[2])}

\* C32: a spread pass reads only the grid of the start of the pass and applies
\* the increments after the scan: its result is the one obtained by judging
\* every roll on the starting grid with only the tiles corrupted or
\* Shadow-owned at the start as sources, and it equals the result of the pass
\* scanning the tiles in table order with the same rolls, whatever the order
\* scanned.
SpreadPassOrderFree ==
    \A i \in DOMAIN returned :
        /\ returned[i].after = spreadShadowWith(state, hitsAtStart(state, returned[i].rolls))
        /\ returned[i].after = spreadShadowScan(state, insertionOrder, returned[i].rolls)

\* a pass that scanned the tiles in table order corrupted the clean middle
\* tile from the first one; the middle tile's own roll towards the clean last
\* tile would have succeeded, and the last tile stayed clean
SpreadPassOrderFreeWitness ==
    /\ returned # << >>
    /\ returned[1].order = insertionOrder
    /\ state.tiles[<<0, 0>>].corruption = 1
    /\ state.tiles[<<1, 0>>].corruption = 0 /\ state.tiles[<<1, 0>>].owner = Neutral
    /\ ~state.tiles[<<1, 0>>].impassable
    /\ state.tiles[<<2, 0>>].corruption = 0 /\ state.tiles[<<2, 0>>].owner = Neutral
    /\ ~state.tiles[<<2, 0>>].impassable
    /\ returned[1].rolls[<< <<1, 0>>, <<2, 0>> >>] = 10
    /\ returned[1].after.tiles[<<1, 0>>].corruption = 1
    /\ returned[1].after.tiles[<<2, 0>>].corruption = 0

\* C33: after a victory evaluation every player of the table holds, for
\* every enabled condition, the progress value of the state evaluated, also
\* when the evaluation found a winner.
VictoryUpdatesAllProgress ==
    returned # << >> =>
        \A owner \in DOMAIN state.players :
            \A i \in DOMAIN state.victoryConditions :
                LET condition == state.victoryConditions[i]
                    progress == state.players[owner].victoryProgress
                IN /\ condition \in DOMAIN progress
                   /\ progress[condition]
                        = progressValue(state, state.players[owner], condition)

\* C34: while an AI turn runs, every capture candidate generated for the AI
\* player targets a passable tile the player does not own, orthogonally
\* adjacent to one of its owned tiles, whose capture cost is at most the
\* player's current divinity.
CaptureCandidatesAffordable ==
    aiRun # << >> =>
        LET player == heldPlayer(Engine, aiRun[1]) IN
        \A c \in generateCaptureActions(state, player) :
            /\ c.targetTile \in DOMAIN state.tiles
            /\ ~state.tiles[c.targetTile].impassable
            /\ state.tiles[c.targetTile].owner # player.owner
            /\ \E k \in player.ownedTiles : Manhattan(k, c.targetTile) = 1
            /\ calculateCaptureCost(state, player, c.targetTile) <= player.divinity

\* ------------------------------------------------------ the features play

WideSize == [width |-> 20, height |-> 10]
FeatureSizes == {MainSize, SmallSize, WideSize}

\* generateMap up to the call of placeFeatures: the terrain and the generator
\* as the three noise fields leave it
generateTerrain(size, rng) ==
    LET heightNoise == createNoise2D(rng, << >>)
        moistureNoise == createNoise2D(heightNoise.rng, << >>)
        featureNoise == createNoise2D(moistureNoise.rng, << >>)
    IN [tiles |-> [k \in MapKeys(size.width, size.height) |->
                     generateTile(terrainKind(noiseAt(heightNoise.table, k[1], k[2]),
                                              noiseAt(moistureNoise.table, k[1], k[2])))],
        rng |-> featureNoise.rng]

\* a run of generateMap as far as placeFeatures; the caller keeps the terrain
\* the features were placed on and the tiles with the features
PlaceFeaturesCall ==
    /\ Len(returned) < MaxMapRuns
    /\ \E size \in FeatureSizes, seed \in MapSeeds :
          LET terrain == generateTerrain(size, alea(seed)) IN
          returned' = Append(returned,
                             [size |-> size, seed |-> seed, terrain |-> terrain.tiles,
                              tiles |-> placeFeatures(terrain.tiles, size, terrain.rng).tiles])
    /\ UNCHANGED <<state, shared, timers, actionHistory, gen, orphans, spreadCalls,
                   aiRun, pendingInit, saved, calls>>

\* Feature placement on the terrain of given sizes and seeds.
FeatureSpec == Init /\ [][PlaceFeaturesCall]_vars

featureTiles(tiles, featureType) == {k \in DOMAIN tiles : tiles[k].type = featureType}

\* C35: after feature placement any two tiles of the same feature type are at
\* Manhattan distance at least 3 (village), 5 (sacred well) or 4 (ancient
\* ruins); no feature lies on a tile that is impassable or whose terrain was
\* water; and the placement has ended with at most the requested count of
\* each type on the map.
FeaturesSpacedAndCounted ==
    \A i \in DOMAIN returned :
        LET run == returned[i]
            area == run.size.width * run.size.height
            spaced(featureType, minDistance) ==
                \A a, b \in featureTiles(run.tiles, featureType) :
                    a # b => Manhattan(a, b) >= minDistance
            features == featureTiles(run.tiles, "village")
                        \cup featureTiles(run.tiles, "sacred_well")
                        \cup featureTiles(run.tiles, "ancient_ruins")
        IN /\ spaced("village", 3)
           /\ spaced("sacred_well", 5)
           /\ spaced("ancient_ruins", 4)
           /\ \A k \in features : /\ ~run.tiles[k].impassable
                                  /\ ~run.terrain[k].impassable
                                  /\ run.terrain[k].type # "water"
           /\ Cardinality(featureTiles(run.tiles, "village")) <= villageCount(area)
           /\ Cardinality(featureTiles(run.tiles, "sacred_well")) <= sacredWellCount(area)
           /\ Cardinality(featureTiles(run.tiles, "ancient_ruins")) <= ruinCount(area)

\* two placements: one on a map that is all water, where every attempt of
\* every feature fails and nothing is placed although features were
\* requested; one on a 20 x 10 map with water and mountains that received
\* two sacred wells and three ruins, two of them exactly 4 apart
FeaturesSpacedAndCountedWitness ==
    /\ Len(returned) = 2
    /\ \A k \in DOMAIN returned[1].terrain : returned[1].terrain[k].type = "water"
    /\ villageCount(returned[1].size.width * returned[1].size.height) > 0
    /\ featureTiles(returned[1].tiles, "village") = {}
    /\ returned[2].size = WideSize
    /\ \E k \in DOMAIN returned[2].terrain : returned[2].terrain[k].type = "water"
    /\ \E k \in DOMAIN returned[2].terrain : returned[2].terrain[k].impassable
    /\ Cardinality(featureTiles(returned[2].tiles, "sacred_well")) = 2
    /\ Cardinality(featureTiles(returned[2].tiles, "ancient_ruins")) = 3
    /\ \E a, b \in featureTiles(returned[2].tiles, "ancient_ruins") : Manhattan(a, b) = 4

\* C36: a move or explore action changes position and movement points only
\* of a unit of the current player: naming a unit of another player it fails
\* and leaves every unit unchanged; when it succeeds the unit it names stands
\* on a passable tile with its movement points in 0..maxMovePoints, and no
\* other unit has moved.
MoveOnlyOwnUnits ==
    \A action \in {a \in ActionInputs(state) : a.type \in {"move", "explore"}} :
        \A r \in executeAction(Engine, action) :
            LET me == state.currentPlayer
                after == r.e.s
                named == action.unitId
            IN /\ (named \in DOMAIN state.units /\ state.units[named].owner # me)
                    => /\ ~r.ok
                       /\ after.units = state.units
               /\ (r.ok /\ named \in DOMAIN after.units)
                    => /\ after.units[named].position \in DOMAIN after.tiles
                       /\ ~after.tiles[after.units[named].position].impassable
                       /\ after.units[named].movePoints \in 0 .. after.units[named].maxMovePoints
                       /\ \A u \in DOMAIN state.units \ {named} :
                             u \in DOMAIN after.units /\ after.units[u] = state.units[u]

\* -------------------------------------------------------- the manage play

SanctifyBaseCost == 6
FortifyCost == 3
PurifyCost == 3
BuildShrineCost == 5

\* calls per run
MaxManageCalls == 2

\* the configured cost of an action type
configuredCost(type) ==
    CASE type = "sanctify" -> SanctifyBaseCost
      [] type = "manage_fortify" -> FortifyCost
      [] type = "manage_purify" -> PurifyCost
      [] type = "manage_build_shrine" -> BuildShrineCost

\* the sanctify and manage actions the current player can submit: on its
\* sanctified centre, on the corner of its block and on the other player's
\* centre, with no cost field, a cost of 1, the configured cost, or 25
ManageInputs(s) ==
    {Action(type, currentId(s), t, NoUnit, cost) :
        type \in {"sanctify", "manage_fortify", "manage_purify", "manage_build_shrine"},
        t \in {OwnCentre, Corner, FarCentre},
        cost \in {NoCost, Cost(1, 0, 0), Cost(3, 0, 0), Cost(5, 0, 0), Cost(6, 0, 0),
                  Cost(25, 0, 0)}}

\* a call of executeAction with a sanctify or manage action; the caller
\* keeps the action, the divinity the player had and what the call returned
ManageCall ==
    /\ calls < MaxManageCalls
    /\ calls' = calls + 1
    /\ \E action \in ManageInputs(state) :
          \E r \in executeAction(Engine, action) :
             /\ SetEngine(r.e)
             /\ returned' = <<[type |-> action.type, cost |-> action.cost, ok |-> r.ok,
                               divinity |-> state.players[state.currentPlayer].divinity]>>
    /\ UNCHANGED <<aiRun, pendingInit, saved>>

\* A match on the main map in which the caller sanctifies and manages.
ManageSpec == SaveInit /\ [][ManageCall]_vars

\* C37: a successful sanctify lowers the acting player's divinity by the
\* configured sanctify cost and a successful fortify, purify or build-shrine
\* by the configured manage cost, whatever cost the action carries, and such
\* an action fails when the player's divinity is below the configured cost.
ManageChargesConfiguredCost ==
    \A i \in DOMAIN returned :
        LET call == returned[i]
            player == state.players[state.currentPlayer]
        IN /\ call.ok => player.divinity = call.divinity - configuredCost(call.type)
           /\ call.divinity < configuredCost(call.type) => ~call.ok

\* C38: after importState of an exported state the match stays live: while
\* the restored current player is AI-controlled its turn is pending or
\* running (its callback is scheduled or executing), so that the turn runs
\* and ends and a human player becomes current again.  With no callback
\* scheduled and none executing the engine takes no further step by itself.
ImportedAITurnRuns ==
    (/\ gen > 1
     /\ state.currentPlayer \in DOMAIN state.players
     /\ state.players[state.currentPlayer].isAI)
        => \/ aiRun # << >>
           \/ timers # << >>

\* C39: in every reachable state each player's divinity, faith, shadow
\* energy and aegis are at least 0, whatever actions with non-negative
\* declared costs were executed, whatever turns started and ended and
\* whatever AI turns ran.
ResourcesNonNegative ==
    \A owner \in DOMAIN state.players :
        /\ state.players[owner].divinity >= 0
        /\ state.players[owner].faith >= 0
        /\ state.players[owner].shadowEnergy >= 0
        /\ state.players[owner].aegis >= 0

\* the AI turn that is running has just simulated a capture, of base cost 4,
\* for its player, whose divinity was at most 4 and is 0 now
ResourcesNonNegativeWitness ==
    /\ aiRun # << >>
    /\ aiRun[1].gen = gen
    /\ aiRun[1].last = "capture"
    /\ state.players[aiRun[1].owner].divinity = 0

\* C40: in every reachable state each player's ownedTiles is a subset of the
\* revealed-tile set, so that no player owns more tiles than are revealed
\* and the Conquest progress |ownedTiles| / |revealedTiles| is at most 100%.
OwnedTilesRevealed ==
    \A owner \in DOMAIN state.players :
        /\ state.players[owner].ownedTiles \subseteq state.revealedTiles
        /\ Cardinality(state.players[owner].ownedTiles) <= Cardinality(state.revealedTiles)

====
